---- MODULE Spec2Model ----
(***************************************************************************)
(* Deployment and teardown reconcilers of the insurance-underwriting MCP   *)
(* server: deployment/deploy_mcp.py (deploy_mcp_server and its helpers)    *)
(* and deployment/cleanup.py (main and its helpers), run one process at a  *)
(* time against a cloud provider whose state is part of the model.         *)
(*                                                                         *)
(* Strings that the code takes apart are sequences: an ARN is the sequence *)
(* of its '/'-separated segments, a role name the sequence of its tokens,  *)
(* a typed answer the sequence of its characters.                          *)
(***************************************************************************)
EXTENDS Integers, Sequences, FiniteSets, TLC

\* ------------------------------------------------------------------ bounds
MaxRuns == 3
MaxPools == 2

\* ------------------------------------------------------- program constants
PreLaunchMaxAttempts == 24
PostLaunchMaxAttempts == 24
DeleteMaxAttempts == 20
ExitSuccess == 0
ExitFailure == 1
ExitCancelled == 2

\* ----------------------------------------------------------- configuration
McpServerName == "ins-mcp"
Region == "us-east-1"
SecretName == <<McpServerName, "cognito", "credentials">>
ApplicantsTable == "applicants"
ClaimsTable == "claims"
TableNames == {ApplicantsTable, ClaimsTable}
PolicyNames ==
  {"NovaInsuranceDynamoDBAccess", "NovaInsuranceS3Access", "NovaInsuranceBedrockAccess"}
PolicyOrder ==
  <<"NovaInsuranceDynamoDBAccess", "NovaInsuranceS3Access", "NovaInsuranceBedrockAccess">>

\* An optional value (None or a dict in the code) is a set of at most one
\* element.
None == {}
Some(v) == {v}
Val(opt) == CHOOSE v \in opt : TRUE
NoSecret == {}

\* ------------------------------------------------------------ string tools
\* str.split('/')[-1] on a string kept as its '/'-separated segments
LastSegment(arn) == IF Len(arn) = 0 THEN <<>> ELSE arn[Len(arn)]

\* "prefix in name" on token sequences
Contains(prefix, name) ==
  \E i \in 1..(Len(name) - Len(prefix) + 1) :
     SubSeq(name, i, i + Len(prefix) - 1) = prefix

LowerChar(c) ==
  CASE c = "Y" -> "y"
    [] c = "E" -> "e"
    [] c = "S" -> "s"
    [] c = "N" -> "n"
    [] c = "O" -> "o"
    [] OTHER -> c

\* str.lower()
Lower(s) == [i \in 1..Len(s) |-> LowerChar(s[i])]

RECURSIVE LStrip(_)
LStrip(s) == IF Len(s) > 0 /\ s[1] = " " THEN LStrip(Tail(s)) ELSE s

RECURSIVE RStrip(_)
RStrip(s) ==
  IF Len(s) > 0 /\ s[Len(s)] = " " THEN RStrip(SubSeq(s, 1, Len(s) - 1)) ELSE s

\* str.strip()
Strip(s) == RStrip(LStrip(s))

\* what the operator may type at a y/n prompt
Answers ==
  { <<"y">>, <<"Y">>, <<"y", "e", "s">>, <<" ", "Y", "E", "S", " ">>,
    <<"n">>, <<"N", "O">>, <<"y", "e">>, <<"x">>, <<>>, <<" ">> }

\* input(...).strip().lower()
ReadAnswer(typed) == Lower(Strip(typed))

IsAffirmative_accepts_empty(response) == response \in {<<"y">>, <<"y", "e", "s">>, <<>>}
\* response not in ['y', 'yes'] is the cancel test of both prompts
IsAffirmative(response) == response \in {<<"y">>, <<"y", "e", "s">>}

\* --------------------------------------------------------- provider naming
RuntimeRolePrefix == <<"AmazonBedrockAgentCoreSDKRuntime-", Region>>
CodeBuildRolePrefix == <<"AmazonBedrockAgentCoreSDKCodeBuild-", Region>>
\* the roles the launch step auto-creates for the configured agent name
RuntimeRoleName == RuntimeRolePrefix \o <<"-h1">>
CodeBuildRoleName == CodeBuildRolePrefix \o <<"-h1">>
RoleNames == {RuntimeRoleName, CodeBuildRoleName}

RoleArn(name) == <<"arn:aws:iam::acct:role", name>>
RuntimeId(n) == "rt-" \o ToString(n)
RuntimeArn(id) == <<"arn:aws:bedrock-agentcore:region:acct:runtime", id>>
PoolId(n) == "pool-" \o ToString(n)
ClientId(n) == "client-" \o ToString(n)
DomainPrefix(n) == "nova-insurance-mcp-" \o ToString(n)
DiscoveryUrl(pool_id) ==
  <<"https://cognito-idp.region.amazonaws.com", pool_id, ".well-known", "openid-configuration">>
OAuthTokenUrl(domain_prefix) ==
  <<"https://" \o domain_prefix \o ".auth.region.amazoncognito.com", "oauth2", "token">>

\* ------------------------------------------------------------------- state
VARIABLES
  runtimes,      \* provider: the runtime listing, in listing order
  rtCount,       \* provider: runtimes created so far (source of fresh ids)
  roles,         \* provider: role name -> set of inline policy names
  pools,         \* provider: pool id -> [domain]; the resource server and the
                 \* client of a pool exist and go with it
  poolCount,     \* provider: identity pools created so far
  secret,        \* provider: the entry at SecretName, or NoSecret
  tables,        \* provider: the existing key-value tables
  bucket,        \* provider: NoBucket, or the number of objects in the bucket
  prog,          \* which script is running: "none", "deploy", "cleanup"
  pc,            \* its position
  runs,          \* scripts started so far
  existing_config,      \* deploy: result of check_existing_mcp_server
  reuse_existing,       \* deploy: the mode flag
  cognito_config,       \* deploy: the credential bundle in use
  config_params,        \* deploy: the runtime descriptor
  attempt,              \* the running poll loop's counter
  sleep_time,           \* cleanup: the delay slept before the latest probe
  roles_verified,       \* deploy: result of the pre-launch loop
  role_verified,        \* deploy: result of the post-launch loop
  execution_role_name,  \* deploy: role name handed to add_permissions
  launch_result,        \* deploy: agent_arn of the launch, or None
  server_details,       \* cleanup: result of get_mcp_server_details
  runtime_deleted,      \* cleanup: result of cleanup_agentcore_runtime
  exitStatus,           \* exit status of the last finished run, or None
  report,               \* what the last finished run printed last
  response,             \* the normalised answer to the run's y/n prompt
  calls,                \* mutating provider calls issued by the current run
  binds,                \* role names add_permissions was invoked with, this run
  detection,            \* how the current run's inventory detection ended
  secretAtStart,        \* the secret entry when the current run started
  followsDone,          \* the run before the current one was a new-mode
                        \* deploy that ended with the success report
  printed,              \* what the step just taken reported about its resource
  faultFree,            \* no call of the run so far failed for a reason
                        \* that the provider state does not explain
  clients,              \* mcpserver: the module's three service clients
                        \* were initialised (else all three are None)
  tool,                 \* mcpserver: the tool call served last, or None
  reads,                \* mcpserver: storage reads that call issued
  reasoning,            \* mcpserver: how that call's reasoning request ended
  reply                 \* mcpserver: what that call returned

provider == <<runtimes, rtCount, roles, pools, poolCount, secret, tables, bucket>>
deployLocals ==
  <<existing_config, reuse_existing, cognito_config, config_params,
    execution_role_name, launch_result>>
cleanupLocals == <<server_details, runtime_deleted>>
loopLocals == <<attempt, sleep_time, roles_verified, role_verified>>
serverVars == <<clients, tool, reads, reasoning, reply>>
vars ==
  <<provider, prog, pc, runs, deployLocals, cleanupLocals, loopLocals,
    exitStatus, report, response, calls, binds, detection, secretAtStart,
    followsDone, printed,
    faultFree, serverVars>>

\* a runtime of another deployment that shares the account's listing
ForeignRuntime ==
  [ id |-> "rt-0", name |-> "other-mcp", arn |-> RuntimeArn("rt-0"),
    roleArn |-> RoleArn(<<"OtherRole">>),
    auth |-> [allowedClients |-> <<"client-0">>, discoveryUrl |-> DiscoveryUrl("pool-0")],
    v1 |-> [roleArn |-> RoleArn(<<"OtherRole">>),
            auth |-> [allowedClients |-> <<"client-0">>,
                      discoveryUrl |-> DiscoveryUrl("pool-0")]],
    status |-> "READY" ]

\* page size of list_agent_runtimes
PageSize == 1
NoBucket == {}
EmptyRoles == [r \in {} |-> {}]
EmptyPools == [p \in {} |-> [domain |-> FALSE]]

\* mcpserver.py is not running: no client, no call served
ServerDown ==
  /\ clients = FALSE
  /\ tool = None
  /\ reads = <<>>
  /\ reasoning = "none"
  /\ reply = None

Init ==
  /\ runtimes = <<ForeignRuntime>>
  /\ rtCount = 0
  /\ roles = EmptyRoles
  /\ pools = EmptyPools
  /\ poolCount = 0
  /\ secret = NoSecret
  /\ tables = {}
  /\ bucket = NoBucket
  /\ prog = "none"
  /\ pc = "idle"
  /\ runs = 0
  /\ existing_config = None
  /\ reuse_existing = FALSE
  /\ cognito_config = None
  /\ config_params = None
  /\ attempt = 0
  /\ sleep_time = 0
  /\ roles_verified = FALSE
  /\ role_verified = FALSE
  /\ execution_role_name = None
  /\ launch_result = None
  /\ server_details = None
  /\ runtime_deleted = FALSE
  /\ exitStatus = None
  /\ report = ""
  /\ response = None
  /\ calls = <<>>
  /\ binds = <<>>
  /\ detection = "none"
  /\ secretAtStart = NoSecret
  /\ followsDone = FALSE
  /\ ServerDown
  /\ printed = {}
  /\ faultFree = TRUE


\* load_data.py generates 1000 applicants and one medical record, stored as
\* one object, for each
MedicalRecordCount == 1000

\* The account after load_data.py ran on it, the first of the runs counted:
\* both tables exist and the bucket holds the medical records.
InitLoaded ==
  /\ runtimes = <<ForeignRuntime>>
  /\ rtCount = 0
  /\ roles = EmptyRoles
  /\ pools = EmptyPools
  /\ poolCount = 0
  /\ secret = NoSecret
  /\ tables = TableNames
  /\ bucket = Some(MedicalRecordCount)
  /\ prog = "none"
  /\ pc = "idle"
  /\ runs = 1
  /\ existing_config = None
  /\ reuse_existing = FALSE
  /\ cognito_config = None
  /\ config_params = None
  /\ attempt = 0
  /\ sleep_time = 0
  /\ roles_verified = FALSE
  /\ role_verified = FALSE
  /\ execution_role_name = None
  /\ launch_result = None
  /\ server_details = None
  /\ runtime_deleted = FALSE
  /\ exitStatus = None
  /\ report = ""
  /\ response = None
  /\ calls = <<>>
  /\ binds = <<>>
  /\ detection = "none"
  /\ secretAtStart = NoSecret
  /\ followsDone = FALSE
  /\ ServerDown
  /\ printed = {}
  /\ faultFree = TRUE

\* ------------------------------------------------------ Resource Inventory
NumPages(rts) == (Len(rts) + PageSize - 1) \div PageSize
HasNextToken_single_page(rts, p) == FALSE
\* 'nextToken' in response
HasNextToken(rts, p) == p < NumPages(rts)

DetailOutcomes == {"ok", "not_found", "error"}
\* index in rts of the first entry of page p named name, or 0
FirstMatchOnPage(rts, p, name) ==
  LET lo == (p - 1) * PageSize + 1
      hi == IF p * PageSize < Len(rts) THEN p * PageSize ELSE Len(rts)
      hits == {i \in lo..hi : rts[i].name = name}
  IN  IF hits = {} THEN 0 ELSE CHOOSE i \in hits : \A j \in hits : i <= j

RECURSIVE DeployScan_skips_failed_page(_, _, _, _)
DeployScan_skips_failed_page(rts, name, p, listFail) ==
  LET m == IF p = listFail THEN 0 ELSE FirstMatchOnPage(rts, p, name)
  IN  IF m # 0 THEN m
      ELSE IF ~HasNextToken(rts, p) THEN 0
      ELSE DeployScan_skips_failed_page(rts, name, p + 1, listFail)

\* The paging loop of check_existing_mcp_server: -1 when the list call of
\* page listFail raises, else the index of the first name match, or 0.
RECURSIVE DeployScan(_, _, _, _)
DeployScan(rts, name, p, listFail) ==
  IF p = listFail THEN -1
  ELSE LET m == FirstMatchOnPage(rts, p, name)
       IN  IF m # 0 THEN m
           ELSE IF ~HasNextToken(rts, p) THEN 0
           ELSE DeployScan(rts, name, p + 1, listFail)

DetailsOf(rt) ==
  [ agent_arn |-> rt.arn,
    agent_runtime_id |-> rt.id,
    execution_role_name |-> LastSegment(rt.v1.roleArn),
    execution_role_arn |-> rt.v1.roleArn,
    cognito_config |->
      [ discovery_url |-> rt.v1.auth.discoveryUrl,
        service_client_id |->
          IF Len(rt.v1.auth.allowedClients) > 0 THEN rt.v1.auth.allowedClients[1] ELSE "" ] ]

\* How the lookup of deploy ended; the code folds all but "found" into None.
DeployDetection(rts, name, listFail, outcomes) ==
  LET m == DeployScan(rts, name, 1, listFail)
  IN  IF m = -1 THEN "list_error"
      ELSE IF m = 0 THEN "absent"
      ELSE IF outcomes[m] = "ok" THEN "found"
      ELSE IF outcomes[m] = "not_found" THEN "details_not_found"
      ELSE "details_error"

\* check_existing_mcp_server: every exception inside the try returns None
check_existing_mcp_server(rts, name, listFail, outcomes) ==
  IF DeployDetection(rts, name, listFail, outcomes) = "found"
  THEN Some(DetailsOf(rts[DeployScan(rts, name, 1, listFail)]))
  ELSE None

\* --------------------------------------------------------- control helpers
Goto(label) == pc' = label /\ UNCHANGED <<exitStatus, report>>
Finish(status, text) == pc' = "exit" /\ exitStatus' = Some(status) /\ report' = text
\* the handlers of __main__: any Exception ends the run with status 1
Fail == Finish(ExitFailure, "DEPLOYMENT FAILED")

OurRuntimes(rts) == {i \in 1..Len(rts) : rts[i].name = McpServerName}
Min(a, b) == IF a < b THEN a ELSE b

\* deploy_mcp_server returned from its new-mode branch with the
\* "DEPLOYMENT COMPLETED SUCCESSFULLY" banner and __main__ exited with 0
EndedDone(program, at, status, reused) ==
  program = "deploy" /\ at = "exit" /\ status = Some(ExitSuccess) /\ ~reused

\* ---------------------------------------------------- Deployment Reconciler
\* deploy_mcp_server up to the inventory call; printing the configuration
\* resolves config.s3_bucket_name, which asks the provider for the account id
DeployStart ==
  /\ pc \in {"idle", "exit"}
  /\ runs < MaxRuns
  /\ runs' = runs + 1
  /\ prog' = "deploy"
  /\ existing_config' = None
  /\ reuse_existing' = FALSE
  /\ cognito_config' = None
  /\ config_params' = None
  /\ execution_role_name' = None
  /\ launch_result' = None
  /\ attempt' = 0
  /\ sleep_time' = 0
  /\ roles_verified' = FALSE
  /\ role_verified' = FALSE
  /\ response' = None
  /\ calls' = <<>>
  /\ binds' = <<>>
  /\ detection' = "none"
  /\ secretAtStart' = secret
  /\ followsDone' = EndedDone(prog, pc, exitStatus, reuse_existing)
  /\ UNCHANGED serverVars
  /\ printed' = {}
  /\ \E accountIdOk \in BOOLEAN :
       /\ faultFree' = accountIdOk
       /\ IF accountIdOk
          THEN pc' = "d_detect" /\ exitStatus' = None /\ report' = ""
          ELSE Fail
  /\ UNCHANGED <<provider, cleanupLocals>>

\* what check_existing_mcp_server prints about its result: "No existing MCP
\* server found" after a listing without a match, the details of the match,
\* or the line of its exception handler
DetectReport(kind) ==
  {<<"lookup", CASE kind = "absent" -> "not found"
                 [] kind = "found" -> "found"
                 [] OTHER -> "error checking">>}

\* existing_config = check_existing_mcp_server(...) and the branch on it
DeployDetect ==
  /\ prog = "deploy" /\ pc = "d_detect"
  /\ \E listFail \in 0..NumPages(runtimes),
        outcomes \in [OurRuntimes(runtimes) -> DetailOutcomes] :
       /\ existing_config' =
            check_existing_mcp_server(runtimes, McpServerName, listFail, outcomes)
       /\ detection' = DeployDetection(runtimes, McpServerName, listFail, outcomes)
  /\ printed' = DetectReport(detection')
  /\ IF existing_config' # None THEN Goto("d_confirm") ELSE Goto("d_cognito")
  /\ UNCHANGED <<provider, prog, runs, reuse_existing, cognito_config, config_params,
                 execution_role_name, launch_result, cleanupLocals, loopLocals,
                 response, calls, binds, secretAtStart, followsDone, serverVars>>
  /\ faultFree' = (faultFree /\ detection' \in {"found", "absent"})

AfterAffirmation_reprovisions == "d_cognito"
\* update mode reuses what detection returned and goes on to the descriptor
AfterAffirmation == "d_configure"

\* the update prompt and the update branch
DeployConfirm ==
  /\ prog = "deploy" /\ pc = "d_confirm"
  /\ \E typed \in Answers :
       /\ response' = Some(ReadAnswer(typed))
       /\ IF ~IsAffirmative(ReadAnswer(typed))
          THEN /\ Finish(ExitCancelled, "DEPLOYMENT CANCELLED BY USER")
               /\ UNCHANGED <<cognito_config, execution_role_name, reuse_existing>>
          ELSE /\ cognito_config' = Some(Val(existing_config).cognito_config)
               /\ execution_role_name' = Some(Val(existing_config).execution_role_name)
               /\ reuse_existing' = TRUE
               /\ Goto(AfterAffirmation)
  /\ UNCHANGED <<provider, prog, runs, existing_config, config_params, launch_result,
                 cleanupLocals, loopLocals, calls, binds, detection,
                 secretAtStart, followsDone, serverVars, printed>>
  /\ UNCHANGED faultFree

\* ----------------------------------------------------------- Auth Provisioner
CognitoCalls ==
  <<"create_user_pool", "create_user_pool_domain", "create_resource_server",
    "create_user_pool_client", "create_secret">>

\* The call of setup_cognito_user_pool that raises, or 6 when none does:
\* failAt is the call the provider fails for its own reasons (0: none); the
\* pool quota and an existing secret of the same name reject calls 1 and 5.
CognitoFirstFailure(failAt, nPools, sec) ==
  LET quota == IF nPools >= MaxPools THEN 1 ELSE 6
      chosen == IF failAt = 0 THEN 6 ELSE failAt
      exists == IF sec # NoSecret THEN 5 ELSE 6
  IN  Min(quota, Min(chosen, exists))

CredentialBundle(n) ==
  [ pool_id |-> PoolId(n),
    service_client_id |-> ClientId(n),
    service_client_secret |-> "secret-of-" \o ClientId(n),
    discovery_url |-> DiscoveryUrl(PoolId(n)),
    oauth_token_url |-> OAuthTokenUrl(DomainPrefix(n)),
    domain_prefix |-> DomainPrefix(n) ]

\* the dict setup_cognito_user_pool returns
ReturnedBundle(n) ==
  [ pool_id |-> PoolId(n),
    service_client_id |-> ClientId(n),
    service_client_secret |-> "secret-of-" \o ClientId(n),
    discovery_url |-> DiscoveryUrl(PoolId(n)),
    oauth_token_url |-> OAuthTokenUrl(DomainPrefix(n)),
    domain_prefix |-> DomainPrefix(n),
    secret_arn |-> <<"arn:aws:secretsmanager:region:acct:secret", SecretName>> ]

\* the pool registered by a call whose call number f was the first to raise
PoolAfter(f) == [domain |-> f > 2]

\* new-deployment branch: setup_cognito_user_pool and the test of its result
DeployCognito ==
  /\ prog = "deploy" /\ pc = "d_cognito"
  /\ \E failAt \in 0..5 :
       LET f == CognitoFirstFailure(failAt, poolCount, secret)
           n == poolCount + 1
       IN  /\ faultFree' = (faultFree /\ failAt = 0 /\ poolCount < MaxPools)
           /\ calls' = calls \o SubSeq(CognitoCalls, 1, Min(f, 5))
           /\ IF f > 1
              THEN /\ poolCount' = n
                   /\ pools' = [p \in DOMAIN pools \cup {PoolId(n)} |->
                                  IF p = PoolId(n) THEN PoolAfter(f) ELSE pools[p]]
              ELSE UNCHANGED <<pools, poolCount>>
           /\ IF f = 6
              THEN /\ secret' = Some(CredentialBundle(n))
                   /\ cognito_config' = Some(ReturnedBundle(n))
                   /\ Goto("d_configure")
              ELSE /\ UNCHANGED <<secret, cognito_config>>
                   /\ Fail
  /\ execution_role_name' = None
  /\ reuse_existing' = FALSE
  /\ UNCHANGED <<runtimes, rtCount, roles, tables, bucket, prog, runs, existing_config,
                 config_params, launch_result, cleanupLocals, loopLocals, response,
                 binds, detection, secretAtStart, followsDone, serverVars, printed>>

ConfigParams_always_auto_create(reuse, existing, cognito) ==
  [ entrypoint |-> "mcpserver.py",
    agent_name |-> McpServerName,
    auto_create_execution_role |-> TRUE,
    allowedClients |-> <<Val(cognito).service_client_id>>,
    discoveryUrl |-> Val(cognito).discovery_url,
    protocol |-> "MCP",
    execution_role |->
      IF reuse /\ existing # None THEN Some(Val(existing).execution_role_arn) ELSE None ]
\* the runtime descriptor handed to configure()
ConfigParams(reuse, existing, cognito) ==
  [ entrypoint |-> "mcpserver.py",
    agent_name |-> McpServerName,
    auto_create_execution_role |-> ~reuse,
    allowedClients |-> <<Val(cognito).service_client_id>>,
    discoveryUrl |-> Val(cognito).discovery_url,
    protocol |-> "MCP",
    execution_role |->
      IF reuse /\ existing # None THEN Some(Val(existing).execution_role_arn) ELSE None ]

\* the line "Allowed Client: ..." of the configuration parameters, printed
\* in either mode
ConfigReport(cognito) == {<<"allowed client", Val(cognito).service_client_id>>}

\* file validation, Runtime() and configure(); any of them may raise, the
\* first two before the parameters are printed, the last after
DeployConfigure ==
  /\ prog = "deploy" /\ pc = "d_configure"
  /\ \E raised \in {"none", "files or sdk", "configure"} :
       /\ faultFree' = (faultFree /\ raised = "none")
       /\ printed' = IF raised = "files or sdk" THEN printed
                     ELSE ConfigReport(cognito_config)
       /\ IF raised = "none"
          THEN /\ config_params' =
                    Some(ConfigParams(reuse_existing, existing_config, cognito_config))
               /\ IF ~reuse_existing THEN Goto("d_precheck") ELSE Goto("d_launch")
          ELSE /\ UNCHANGED config_params
               /\ Fail
  /\ response' = None      \* the answer is not read again
  /\ UNCHANGED <<provider, prog, runs, existing_config, reuse_existing, cognito_config,
                 execution_role_name, launch_result, cleanupLocals, loopLocals,
                 calls, binds, detection, secretAtStart, followsDone, serverVars>>

\* pre-launch role-propagation check (new deployments only): the clients
\* and the account id are fetched outside the loop's try
DeployPreCheck ==
  /\ prog = "deploy" /\ pc = "d_precheck"
  /\ attempt' = 0
  /\ sleep_time' = 0
  /\ roles_verified' = FALSE
  /\ \E accountIdOk \in BOOLEAN :
       /\ faultFree' = (faultFree /\ accountIdOk)
       /\ IF accountIdOk THEN Goto("d_preloop") ELSE Fail
  /\ UNCHANGED <<provider, prog, runs, deployLocals, cleanupLocals, role_verified,
                 response, calls, binds, detection, secretAtStart, followsDone, serverVars, printed>>

\* any(prefix in name for name in role_names)
AnyHasPrefix(prefix, role_names) == \E name \in role_names : Contains(prefix, name)

\* one iteration of the pre-launch loop: list_roles answers with one page of
\* the account's roles, or raises
DeployPreProbe ==
  /\ prog = "deploy" /\ pc = "d_preloop"
  /\ attempt < PreLaunchMaxAttempts /\ ~roles_verified
  /\ attempt' = attempt + 1
  /\ sleep_time' = 0
  /\ \E raised \in BOOLEAN, role_names \in SUBSET (DOMAIN roles) :
       /\ faultFree' = (faultFree /\ ~raised)
       /\ roles_verified' = ( /\ ~raised
                              /\ AnyHasPrefix(RuntimeRolePrefix, role_names)
                              /\ AnyHasPrefix(CodeBuildRolePrefix, role_names) )
  /\ Goto("d_preloop")
  /\ UNCHANGED <<provider, prog, runs, deployLocals, cleanupLocals, role_verified,
                 response, calls, binds, detection, secretAtStart, followsDone, serverVars, printed>>

\* where the run goes when the pre-launch loop ends without roles_verified
AfterPreCheck_timeout_raises(seen) == IF seen THEN "d_launch" ELSE "raise"
\* after the loop both outcomes only print; the launch follows
AfterPreCheck(seen) == "d_launch"

\* the loop's exit and the print that closes it, the last read of attempt
DeployPreDone ==
  /\ prog = "deploy" /\ pc = "d_preloop"
  /\ ~(attempt < PreLaunchMaxAttempts /\ ~roles_verified)
  /\ IF AfterPreCheck(roles_verified) = "raise" THEN Fail
     ELSE Goto(AfterPreCheck(roles_verified))
  /\ attempt' = 0
  /\ sleep_time' = 0
  /\ UNCHANGED <<provider, prog, runs, deployLocals, cleanupLocals, roles_verified, role_verified,
                 response, calls, binds, detection, secretAtStart, followsDone, serverVars, printed>>
  /\ UNCHANGED faultFree

\* --------------------------------------------------------------- launch
NewRuntime(n, params, roleArn) ==
  [ id |-> RuntimeId(n), name |-> params.agent_name, arn |-> RuntimeArn(RuntimeId(n)),
    roleArn |-> roleArn,
    auth |-> [allowedClients |-> params.allowedClients,
              discoveryUrl |-> params.discoveryUrl],
    v1 |-> [roleArn |-> roleArn,
            auth |-> [allowedClients |-> params.allowedClients,
                      discoveryUrl |-> params.discoveryUrl]],
    status |-> "READY" ]

\* the role the launch binds: the descriptor's, or the auto-created one
LaunchRoleArn(params) ==
  IF params.execution_role # None THEN Val(params.execution_role)
  ELSE RoleArn(RuntimeRoleName)

Launch_always_creates(rts, n, params) ==
  Append(rts, NewRuntime(n + 1, params, LaunchRoleArn(params)))
\* launch(auto_update_on_conflict=True): the provider refuses a second
\* runtime of the same name, and the conflict is resolved by updating the
\* runtime that holds the name
Launch(rts, n, params) ==
  IF \E i \in 1..Len(rts) : rts[i].name = params.agent_name
  THEN [i \in 1..Len(rts) |->
          IF rts[i].name = params.agent_name
          THEN [rts[i] EXCEPT !.roleArn = LaunchRoleArn(params),
                              !.auth = [allowedClients |-> params.allowedClients,
                                        discoveryUrl |-> params.discoveryUrl]]
          ELSE rts[i]]
  ELSE Append(rts, NewRuntime(n + 1, params, LaunchRoleArn(params)))

\* roles after a launch: auto-creation adds the two SDK roles when missing
RolesAfterLaunch(rs, params) ==
  IF params.auto_create_execution_role
  THEN [r \in DOMAIN rs \cup RoleNames |-> IF r \in DOMAIN rs THEN rs[r] ELSE {}]
  ELSE rs

\* a runtime of the configured name is being deleted: it can be neither
\* updated nor replaced, so the launch raises
LaunchBlocked == \E i \in OurRuntimes(runtimes) : runtimes[i].status = "DELETING"

\* the launch step, then the branch on the mode
DeployLaunch ==
  /\ prog = "deploy" /\ pc = "d_launch"
  /\ calls' = Append(calls, "launch")
  /\ \E ok \in BOOLEAN :
       /\ faultFree' = (faultFree /\ ok)
       /\ IF ok /\ ~LaunchBlocked
          THEN LET params == Val(config_params)
                   rts == Launch(runtimes, rtCount, params)
                   mine == CHOOSE i \in 1..Len(rts) :
                             /\ rts[i].name = params.agent_name
                             /\ \A j \in 1..Len(rts) :
                                  rts[j].name = params.agent_name => i <= j
               IN  /\ runtimes' = rts
                   /\ rtCount' = IF Len(rts) > Len(runtimes) THEN rtCount + 1 ELSE rtCount
                   /\ roles' = RolesAfterLaunch(roles, params)
                   /\ launch_result' = Some(rts[IF Len(rts) > Len(runtimes)
                                                THEN Len(rts) ELSE mine].arn)
                   /\ IF ~reuse_existing THEN Goto("d_postloop") ELSE Goto("d_fetchrole")
          ELSE /\ UNCHANGED <<runtimes, rtCount, roles, launch_result>>
               /\ Fail
  /\ attempt' = 0
  /\ sleep_time' = 0
  /\ role_verified' = FALSE
  /\ UNCHANGED <<pools, poolCount, secret, tables, bucket, prog, runs, existing_config,
                 reuse_existing, cognito_config, config_params, execution_role_name,
                 cleanupLocals, roles_verified, response, binds, detection,
                 secretAtStart, followsDone, serverVars, printed>>

\* ------------------------------------------------ post-launch verification
\* runtime_id = launch_result.agent_arn.split('/')[-1]
LaunchedRuntimeId == LastSegment(Val(launch_result))
RuntimeById(rts, id) == {i \in 1..Len(rts) : rts[i].id = id}

PostProbeOutcomes ==
  {"runtime_not_found", "no_role_arn", "no_such_role", "error", "resolved"}

\* One iteration of the post-launch loop.  The runtime and the role become
\* visible some time after the launch: a probe may miss either of them, but
\* it resolves only a runtime and a role that exist.
DeployPostProbe ==
  /\ prog = "deploy" /\ pc = "d_postloop"
  /\ attempt < PostLaunchMaxAttempts /\ ~role_verified
  /\ attempt' = attempt + 1
  /\ sleep_time' = 0
  /\ \E outcome \in PostProbeOutcomes :
       /\ faultFree' = (faultFree /\ outcome = "resolved")
       /\ LET hits == RuntimeById(runtimes, LaunchedRuntimeId)
              rt == runtimes[CHOOSE i \in hits : TRUE]
          IN  CASE outcome \in {"runtime_not_found", "no_role_arn", "error"} ->
                     /\ role_verified' = FALSE
                     /\ UNCHANGED execution_role_name
                [] outcome = "no_such_role" ->
                     /\ hits # {} /\ Len(rt.v1.roleArn) > 0
                     /\ execution_role_name' = Some(LastSegment(rt.v1.roleArn))
                     /\ role_verified' = FALSE
                [] outcome = "resolved" ->
                     /\ hits # {} /\ Len(rt.v1.roleArn) > 0
                     /\ LastSegment(rt.v1.roleArn) \in DOMAIN roles
                     /\ execution_role_name' = Some(LastSegment(rt.v1.roleArn))
                     /\ role_verified' = TRUE
  /\ Goto("d_postloop")
  /\ UNCHANGED <<provider, prog, runs, existing_config, reuse_existing, cognito_config,
                 config_params, launch_result, cleanupLocals, roles_verified, response,
                 calls, binds, detection, secretAtStart, followsDone, serverVars, printed>>

AfterPostVerify_timeout_continues(resolved) == "d_bind"
\* if not role_verified: raise Exception(...), else on to add_permissions
AfterPostVerify(resolved) == IF resolved THEN "d_bind" ELSE "raise"

\* the loop's exit: the raise, or the print that is the last read of attempt
DeployPostDone ==
  /\ prog = "deploy" /\ pc = "d_postloop"
  /\ ~(attempt < PostLaunchMaxAttempts /\ ~role_verified)
  /\ IF AfterPostVerify(role_verified) = "raise" THEN Fail
     ELSE Goto(AfterPostVerify(role_verified))
  /\ attempt' = 0
  /\ sleep_time' = 0
  /\ UNCHANGED <<provider, prog, runs, deployLocals, cleanupLocals, roles_verified, role_verified,
                 response, calls, binds, detection, secretAtStart, followsDone, serverVars, printed>>
  /\ UNCHANGED faultFree

\* update mode: the current role is read back from the launched runtime
DeployFetchRole ==
  /\ prog = "deploy" /\ pc = "d_fetchrole"
  /\ \E ok \in BOOLEAN :
       LET hits == RuntimeById(runtimes, LaunchedRuntimeId)
       IN  /\ faultFree' = (faultFree /\ ok)
           /\ IF ok /\ hits # {}
              THEN /\ execution_role_name' =
                        Some(LastSegment(runtimes[CHOOSE i \in hits : TRUE].v1.roleArn))
                   /\ Goto("d_bind")
              ELSE /\ UNCHANGED execution_role_name
                   /\ Fail
  /\ UNCHANGED <<provider, prog, runs, existing_config, reuse_existing, cognito_config,
                 config_params, launch_result, cleanupLocals, loopLocals, response,
                 calls, binds, detection, secretAtStart, followsDone, serverVars, printed>>

\* ---------------------------------------------------------- Permission Binder
\* The put of add_permissions that raises (4: none; 0: the account lookup
\* before the first put): failAt = 1 fails the account lookup, failAt = 2..4
\* the first, second or third put; a put on a missing role raises too.  The
\* role is the caller's execution_role_name, None when it was never set.
BinderFirstFailure_put_is_create(failAt, role, rs) ==
  IF failAt = 1 THEN 0
  ELSE IF role = None \/ Val(role) \notin DOMAIN rs THEN 1
  ELSE LET held == {i \in 1..3 : PolicyOrder[i] \in rs[Val(role)]}
           stop == IF failAt = 0 THEN 4 ELSE failAt - 1
       IN  IF \E i \in held : i <= stop
           THEN CHOOSE i \in held : \A j \in held : i <= j
           ELSE stop
BinderFirstFailure(failAt, role, rs) ==
  IF failAt = 1 THEN 0
  ELSE IF role = None \/ Val(role) \notin DOMAIN rs THEN 1
  ELSE IF failAt = 0 THEN 4
  ELSE failAt - 1

\* resource names the policy documents interpolate from the configuration
TableArn(table) == <<"arn:aws:dynamodb", Region, "acct", "table", table>>
ConfiguredBucket == <<"nova-insurance-bucket", Region>>
ConfiguredModel == "model-id"

\* the three documents add_permissions builds, by policy name
PolicyDocument(name) ==
  CASE name = "NovaInsuranceDynamoDBAccess" ->
         [ Action |-> {"dynamodb:GetItem", "dynamodb:Query", "dynamodb:Scan",
                       "dynamodb:DescribeTable"},
           Resource |-> {TableArn(ApplicantsTable), TableArn(ClaimsTable),
                         TableArn("nova-insurance-*")} ]
    [] name = "NovaInsuranceS3Access" ->
         [ Action |-> {"s3:GetObject", "s3:ListBucket"},
           Resource |-> {<<"arn:aws:s3:::", ConfiguredBucket, "*">>,
                         <<"arn:aws:s3:::", ConfiguredBucket>>} ]
    [] OTHER ->
         [ Action |-> {"bedrock:InvokeModel", "bedrock:Converse"},
           Resource |-> {<<"arn:aws:bedrock:*::foundation-model", ConfiguredModel>>} ]

\* add_permissions: the puts up to the first failure take effect; every
\* exception is caught and printed as a warning
add_permissions(rs, role, failAt) ==
  LET f == BinderFirstFailure(failAt, role, rs)
  IN  [r \in DOMAIN rs |->
         IF Some(r) = role THEN rs[r] \cup {PolicyOrder[i] : i \in 1..(f - 1)}
         ELSE rs[r]]

BinderCalls(failAt, role, rs) ==
  [i \in 1..Min(BinderFirstFailure(failAt, role, rs), 3) |-> "put_role_policy"]

\* what add_permissions prints last: the success line after the third put, or
\* the warning of its except clause
BinderReport(failAt, role, rs) ==
  {<<"permissions",
     IF BinderFirstFailure(failAt, role, rs) = 4 THEN "attached" ELSE "warning">>}

DeployBind_update_skips_binder ==
  /\ prog = "deploy" /\ pc = "d_bind"
  /\ IF reuse_existing
     THEN UNCHANGED <<roles, calls, binds, faultFree, printed>>
     ELSE /\ binds' = Append(binds, execution_role_name)
          /\ faultFree' = faultFree
          /\ roles' = add_permissions(roles, execution_role_name, 0)
          /\ calls' = calls \o BinderCalls(0, execution_role_name, roles)
          /\ printed' = BinderReport(0, execution_role_name, roles)
  /\ Goto("d_finish")
  /\ UNCHANGED <<runtimes, rtCount, pools, poolCount, secret, tables, bucket, prog,
                 runs, deployLocals, cleanupLocals, loopLocals, response,
                 detection, secretAtStart, followsDone, serverVars>>
\* the call of add_permissions of either mode
DeployBind ==
  /\ prog = "deploy" /\ pc = "d_bind"
  /\ binds' = Append(binds, execution_role_name)
  /\ \E failAt \in 0..4 :
       /\ faultFree' = (faultFree /\ failAt = 0)
       /\ roles' = add_permissions(roles, execution_role_name, failAt)
       /\ calls' = calls \o BinderCalls(failAt, execution_role_name, roles)
       /\ printed' = BinderReport(failAt, execution_role_name, roles)
  /\ Goto("d_finish")
  /\ UNCHANGED <<runtimes, rtCount, pools, poolCount, secret, tables, bucket, prog,
                 runs, deployLocals, cleanupLocals, loopLocals, response,
                 detection, secretAtStart, followsDone, serverVars>>

\* the integration document (new deployments only) and the final report
DeployFinish ==
  /\ prog = "deploy" /\ pc = "d_finish"
  /\ \E docOk \in BOOLEAN :
       /\ faultFree' = (faultFree /\ (docOk \/ reuse_existing))
       /\ IF reuse_existing THEN Finish(ExitSuccess, "UPDATE COMPLETED SUCCESSFULLY")
          ELSE IF docOk THEN Finish(ExitSuccess, "DEPLOYMENT COMPLETED SUCCESSFULLY")
          ELSE Fail
  /\ UNCHANGED <<provider, prog, runs, deployLocals, cleanupLocals, loopLocals,
                 response, calls, binds, detection, secretAtStart, followsDone, serverVars, printed>>

\* Ctrl+C at any point of deploy: the KeyboardInterrupt handler of __main__.
\* The loop counter dies with the frame it unwinds.
DeployInterrupt ==
  /\ prog = "deploy" /\ pc \notin {"idle", "exit"}
  /\ Finish(ExitCancelled, "DEPLOYMENT CANCELLED BY USER (Ctrl+C)")
  /\ attempt' = 0
  /\ sleep_time' = 0
  /\ UNCHANGED <<provider, prog, runs, deployLocals, cleanupLocals, roles_verified,
                 role_verified, response, calls, binds, detection, secretAtStart, followsDone, serverVars,
                 printed, faultFree>>

\* ------------------------------------------------------ Teardown Reconciler
PageOf(i) == (i - 1) \div PageSize + 1

CleanupDetailsOf_keeps_arn(rt) ==
  [ agent_runtime_id |-> rt.id,
    agent_arn |-> rt.arn,
    execution_role_arn |-> rt.v1.roleArn,
    execution_role_name |-> rt.v1.roleArn,
    auth_config |-> rt.v1.auth ]
\* the dict get_mcp_server_details returns for a listed runtime
CleanupDetailsOf(rt) ==
  [ agent_runtime_id |-> rt.id,
    agent_arn |-> rt.arn,
    execution_role_arn |-> rt.v1.roleArn,
    execution_role_name |-> LastSegment(rt.v1.roleArn),
    auth_config |-> rt.v1.auth ]

\* get_mcp_server_details from listing entry i on.  A list call that raises
\* ends the lookup with None.  At a name match the details call returns the
\* entry (found), raises not-found (the loop continues), or raises another
\* error: its handler names an undefined logger, so the NameError leaves the
\* loop and the outer handler returns None.
RECURSIVE get_mcp_server_details(_, _, _, _, _)
get_mcp_server_details(rts, name, i, listFail, outcomes) ==
  IF (i - 1) % PageSize = 0 /\ PageOf(i) = listFail /\ (i <= Len(rts) \/ i = 1)
  THEN None
  ELSE IF i > Len(rts) THEN None
  ELSE IF rts[i].name = name /\ outcomes[i] = "ok" THEN Some(CleanupDetailsOf(rts[i]))
  ELSE IF rts[i].name = name /\ outcomes[i] = "error" THEN None
  ELSE get_mcp_server_details(rts, name, i + 1, listFail, outcomes)

\* main() of cleanup up to the prompt: the lookup, then the resource list,
\* whose bucket name asks the provider for the account id outside any try
CleanupStart ==
  /\ pc \in {"idle", "exit"}
  /\ runs < MaxRuns
  /\ runs' = runs + 1
  /\ prog' = "cleanup"
  /\ runtime_deleted' = FALSE
  /\ attempt' = 0
  /\ sleep_time' = 0
  /\ roles_verified' = FALSE
  /\ role_verified' = FALSE
  /\ response' = None
  /\ calls' = <<>>
  /\ binds' = <<>>
  /\ detection' = "none"
  /\ secretAtStart' = secret
  /\ followsDone' = EndedDone(prog, pc, exitStatus, reuse_existing)
  /\ UNCHANGED serverVars
  /\ \E listFail \in 0..NumPages(runtimes),
        outcomes \in [OurRuntimes(runtimes) -> DetailOutcomes] :
       server_details' =
         get_mcp_server_details(runtimes, McpServerName, 1, listFail, outcomes)
  /\ printed' = {<<"lookup", IF server_details' # None THEN "found" ELSE "not found">>}
  /\ \E accountIdOk \in BOOLEAN :
       /\ IF accountIdOk
          THEN pc' = "c_confirm" /\ exitStatus' = None /\ report' = ""
          ELSE Finish(ExitFailure, "Traceback")
       /\ faultFree' =
            ( /\ accountIdOk
              /\ server_details' =
                   get_mcp_server_details(runtimes, McpServerName, 1, 0,
                                          [i \in OurRuntimes(runtimes) |-> "ok"]) )
  /\ UNCHANGED <<provider, deployLocals>>

AfterCleanupPrompt_ignores_answer(answer) == Goto("c_runtime")
\* if response not in ['y', 'yes']: print "Cleanup cancelled" and return
AfterCleanupPrompt(answer) ==
  IF ~IsAffirmative(answer) THEN Finish(ExitSuccess, "Cleanup cancelled")
  ELSE Goto("c_runtime")

\* the confirmation prompt; a refusal returns from main()
CleanupConfirm ==
  /\ prog = "cleanup" /\ pc = "c_confirm"
  /\ \E typed \in Answers :
       /\ response' = Some(ReadAnswer(typed))
       /\ AfterCleanupPrompt(ReadAnswer(typed))
  /\ UNCHANGED <<provider, prog, runs, deployLocals, cleanupLocals, loopLocals, calls,
                 binds, detection, secretAtStart, followsDone, serverVars, printed>>
  /\ UNCHANGED faultFree

MarkDeleting(rts, id) ==
  [i \in 1..Len(rts) |->
     IF rts[i].id = id THEN [rts[i] EXCEPT !.status = "DELETING"] ELSE rts[i]]

\* cleanup_agentcore_runtime up to its wait loop
CleanupRuntime ==
  /\ prog = "cleanup" /\ pc = "c_runtime"
  /\ attempt' = 0
  /\ sleep_time' = 0
  /\ IF server_details = None
     THEN /\ runtime_deleted' = FALSE
          /\ printed' = {<<"runtime", "not found", 0>>}
          /\ Goto("c_role")
          /\ UNCHANGED <<runtimes, calls, faultFree>>
     ELSE /\ calls' = Append(calls, "delete_agent_runtime")
          /\ \E ok \in BOOLEAN :
               LET id == Val(server_details).agent_runtime_id
               IN  /\ faultFree' = (faultFree /\ ok)
                   /\ IF ok /\ RuntimeById(runtimes, id) # {}
                      THEN /\ runtimes' = MarkDeleting(runtimes, id)
                           /\ UNCHANGED <<runtime_deleted, printed>>
                           /\ Goto("c_wait")
                      ELSE /\ runtime_deleted' = FALSE
                           /\ printed' = {<<"runtime", "error", 0>>}
                           /\ Goto("c_role")
                           /\ UNCHANGED runtimes
  /\ response' = None      \* the answer is not read again
  /\ UNCHANGED <<rtCount, roles, pools, poolCount, secret, tables, bucket, prog, runs,
                 deployLocals, server_details, roles_verified, role_verified, binds,
                 detection, secretAtStart, followsDone, serverVars>>

SleepTime_uncapped(n) == 5 + (n * 2)
\* sleep_time = min(5 + (attempt * 2), 15)
SleepTime(n) == Min(5 + (n * 2), 15)

WaitLoopContinues_one_more(n) == n <= DeleteMaxAttempts
\* while attempt < max_attempts
WaitLoopContinues(n) == n < DeleteMaxAttempts

ProbeConfirms_any_exception(outcome) == outcome # "present"
\* the except clauses of the probe: only ResourceNotFoundException returns True
ProbeConfirms(outcome) == outcome = "not_found"

\* the figure the wait prints: attempt * 10, labelled seconds
ElapsedReport(n) == n * 10

\* one iteration of the deletion wait: the lookup finds the runtime, raises
\* not-found once the runtime is gone, or raises something else; the
\* function's counter ends with its return
CleanupWaitProbe ==
  /\ prog = "cleanup" /\ pc = "c_wait"
  /\ WaitLoopContinues(attempt)
  /\ sleep_time' = SleepTime(attempt + 1)
  /\ \E outcome \in {"present", "not_found", "error"} :
       LET gone == RuntimeById(runtimes, Val(server_details).agent_runtime_id) = {}
       IN  /\ outcome = "present" => ~gone
           /\ outcome = "not_found" => gone
           /\ faultFree' = (faultFree /\ outcome # "error")
           /\ IF ProbeConfirms(outcome)
              THEN /\ runtime_deleted' = TRUE
                   /\ printed' = {<<"runtime", "deleted", ElapsedReport(attempt + 1)>>}
                   /\ attempt' = 0
                   /\ Goto("c_role")
              ELSE /\ attempt' = attempt + 1
                   /\ UNCHANGED <<runtime_deleted, printed>>
                   /\ Goto("c_wait")
  /\ UNCHANGED <<provider, prog, runs, deployLocals, server_details, roles_verified,
                 role_verified, response, calls, binds, detection, secretAtStart, followsDone, serverVars>>

WaitTimeoutResult_returns_true == TRUE
\* the return after the loop ran out of attempts
WaitTimeoutResult == FALSE

CleanupWaitTimeout ==
  /\ prog = "cleanup" /\ pc = "c_wait"
  /\ ~WaitLoopContinues(attempt)
  /\ runtime_deleted' = WaitTimeoutResult
  /\ printed' = {<<"runtime", "timed out", ElapsedReport(DeleteMaxAttempts)>>}
  /\ attempt' = 0
  /\ sleep_time' = 0
  /\ Goto("c_role")
  /\ UNCHANGED <<provider, prog, runs, deployLocals, server_details, roles_verified,
                 role_verified, response, calls, binds, detection, secretAtStart, followsDone, serverVars>>
  /\ UNCHANGED faultFree

\* the provider completes a deletion it accepted earlier
RuntimeGone ==
  /\ \E i \in 1..Len(runtimes) :
       /\ runtimes[i].status = "DELETING"
       /\ runtimes' = SubSeq(runtimes, 1, i - 1) \o SubSeq(runtimes, i + 1, Len(runtimes))
  /\ UNCHANGED <<rtCount, roles, pools, poolCount, secret, tables, bucket, prog, pc,
                 runs, deployLocals, cleanupLocals, loopLocals, exitStatus, report,
                 response, calls, binds, detection, secretAtStart, followsDone, serverVars, printed>>
  /\ UNCHANGED faultFree

RoleCleanupAllowed_ignores_wait(deleted, details) == details # None
\* if runtime_deleted: cleanup_iam_role(server_details)
RoleCleanupAllowed(deleted, details) == deleted

RolesAfterRoleCleanup_strips_only(rs, role, kept, deleteOk) ==
  IF role \notin DOMAIN rs THEN rs ELSE [rs EXCEPT ![role] = kept]
\* cleanup_iam_role on an existing role: kept are the policies left after
\* the strip loop and the detach loop (each stops at its first call that
\* raises); the role goes only when nothing is left on it and the delete
\* call succeeds
RolesAfterRoleCleanup(rs, role, kept, deleteOk) ==
  IF role \notin DOMAIN rs THEN rs
  ELSE IF kept = {} /\ deleteOk THEN [r \in DOMAIN rs \ {role} |-> rs[r]]
  ELSE [rs EXCEPT ![role] = kept]

\* managed policies an operator may have attached to a role
ManagedPolicyArns == {"arn:aws:iam::aws:policy/CloudWatchReadOnlyAccess"}

RoleCleanupCalls_stops_at_failure(rs, role, kept) ==
  LET all == IF role \in DOMAIN rs THEN rs[role] ELSE {}
      inline == all \ ManagedPolicyArns
      managed == all \cap ManagedPolicyArns
  IN  [i \in 1..Cardinality(inline \ kept) |-> "delete_role_policy"]
      \o (IF inline \cap kept # {} THEN <<"delete_role_policy">>
          ELSE [i \in 1..Cardinality(managed \ kept) |-> "detach_role_policy"]
               \o (IF managed \cap kept # {} THEN <<"detach_role_policy">>
                   ELSE <<"delete_role">>))
\* the calls of cleanup_iam_role: the strip loop and the detach loop each
\* issue their deletes up to the first that raises, then delete_role
RoleCleanupCalls(rs, role, kept) ==
  LET all == IF role \in DOMAIN rs THEN rs[role] ELSE {}
      inline == all \ ManagedPolicyArns
      managed == all \cap ManagedPolicyArns
      stripped == Cardinality(inline \ kept) + (IF inline \cap kept # {} THEN 1 ELSE 0)
      detached == Cardinality(managed \ kept) + (IF managed \cap kept # {} THEN 1 ELSE 0)
  IN  [i \in 1..stripped |-> "delete_role_policy"]
      \o [i \in 1..detached |-> "detach_role_policy"]
      \o <<"delete_role">>

\* the branch of main() after the runtime step: the role cleanup, or the
\* manual-cleanup text, or nothing when no runtime was found
CleanupRole ==
  /\ prog = "cleanup" /\ pc = "c_role"
  /\ sleep_time' = 0      \* the wait has returned
  /\ IF RoleCleanupAllowed(runtime_deleted, server_details)
     THEN LET role == Val(server_details).execution_role_name
              held == IF role \in DOMAIN roles THEN roles[role] ELSE {}
          IN  \E kept \in SUBSET held, deleteOk \in BOOLEAN :
                /\ roles' = RolesAfterRoleCleanup(roles, role, kept, deleteOk)
                /\ calls' = calls \o RoleCleanupCalls(roles, role, kept)
                /\ faultFree' =
                     (faultFree /\ (role \notin DOMAIN roles \/ (kept = {} /\ deleteOk)))
                /\ printed' = {<<"role", IF role \notin DOMAIN roles THEN "already deleted"
                                ELSE IF kept = {} /\ deleteOk THEN "deleted"
                                ELSE "error">>}
     ELSE /\ UNCHANGED <<roles, calls, faultFree>>
          /\ printed' = IF server_details # None
                        THEN {<<"role", "manual cleanup">>,
                              <<"manual", Val(server_details).execution_role_name>>}
                        ELSE {}
  /\ Goto("c_cognito")
  /\ UNCHANGED <<runtimes, rtCount, pools, poolCount, secret, tables, bucket, prog,
                 runs, deployLocals, cleanupLocals, attempt, roles_verified, role_verified, response, binds,
                 detection, secretAtStart, followsDone, serverVars>>

CognitoCleanupCalls_pool_first == <<"delete_user_pool", "delete_user_pool_domain">>
\* "Delete domain first", then "Delete user pool"
CognitoCleanupCalls == <<"delete_user_pool_domain", "delete_user_pool">>

\* cleanup_cognito_resources: the bundle is read from the secret; the domain
\* delete swallows every error; the pool delete fails while the pool still
\* has its domain, or when the pool is gone, or when the provider says so
CleanupCognito ==
  /\ prog = "cleanup" /\ pc = "c_cognito"
  /\ \E readOk \in BOOLEAN :
       IF secret = NoSecret \/ ~readOk
       THEN /\ printed' = {<<"pool", IF readOk THEN "not found" ELSE "error">>}
            /\ UNCHANGED <<pools, calls>>
            /\ faultFree' = (faultFree /\ readOk)
       ELSE \E domainOk \in BOOLEAN, poolOk \in BOOLEAN :
            LET pool_id == Val(secret).pool_id
                exists == pool_id \in DOMAIN pools
                domainGone == exists /\ domainOk /\ pools[pool_id].domain
                domainLeft == exists /\ pools[pool_id].domain /\ ~domainGone
                poolGone == exists /\ poolOk /\ ~domainLeft
            IN  /\ calls' = calls \o CognitoCleanupCalls
                /\ pools' =
                     IF poolGone THEN [p \in DOMAIN pools \ {pool_id} |-> pools[p]]
                     ELSE IF domainGone THEN [pools EXCEPT ![pool_id].domain = FALSE]
                     ELSE pools
                /\ printed' = {<<"pool", IF poolGone THEN "deleted" ELSE "error">>}
                /\ faultFree' = (faultFree /\ (exists => poolGone))
  /\ Goto("c_tables")
  /\ UNCHANGED <<runtimes, rtCount, roles, poolCount, secret, tables, bucket, prog,
                 runs, deployLocals, cleanupLocals, loopLocals, response, binds,
                 detection, secretAtStart, followsDone, serverVars>>

AfterTables_failure_propagates(failed) ==
  IF failed = {} THEN Goto("c_bucket") ELSE Finish(ExitFailure, "Traceback")
\* the except clauses of cleanup_dynamodb_tables: whatever a table's deletion
\* raised, the function returns normally and main() goes on to the bucket
AfterTables(failed) == Goto("c_bucket")

\* cleanup_dynamodb_tables: per table delete() and the wait, any exception of
\* either is printed as "Table not found"
CleanupTables ==
  /\ prog = "cleanup" /\ pc = "c_tables"
  /\ \E failed \in SUBSET tables :
       LET deleted == tables \ failed
       IN  /\ tables' = tables \ deleted
           /\ printed' = {<<t, IF t \in deleted THEN "deleted" ELSE "not found">> :
                             t \in TableNames}
           /\ AfterTables(failed)
           /\ faultFree' = (faultFree /\ failed = {})
  /\ calls' = calls \o <<"delete_table", "delete_table">>
  /\ UNCHANGED <<runtimes, rtCount, roles, pools, poolCount, secret, bucket, prog,
                 runs, deployLocals, cleanupLocals, loopLocals, response, binds,
                 detection, secretAtStart, followsDone, serverVars>>

\* keys one list_objects_v2 call returns at most
ListPageSize == 1000

\* cleanup_s3_bucket: one listing page is deleted, then the bucket, which the
\* provider refuses while objects are left
CleanupBucket ==
  /\ prog = "cleanup" /\ pc = "c_bucket"
  /\ \E nameOk \in BOOLEAN :
       IF ~nameOk
       THEN /\ printed' = {<<"bucket", "error">>}
            /\ faultFree' = FALSE
            /\ UNCHANGED <<bucket, calls>>
       ELSE IF bucket = NoBucket
       THEN /\ printed' = {<<"bucket", "not found">>}
            /\ UNCHANGED <<bucket, calls, faultFree>>
       ELSE \E listOk \in BOOLEAN, objectsOk \in BOOLEAN, bucketOk \in BOOLEAN :
            IF ~listOk
            THEN /\ printed' = {<<"bucket", "error">>}
                 /\ faultFree' = FALSE
                 /\ UNCHANGED <<bucket, calls>>
            ELSE
            LET n == Val(bucket)
                listed == Min(n, ListPageSize)
                left == IF objectsOk THEN n - listed ELSE n
                bucketGone == (listed = 0 \/ objectsOk) /\ bucketOk /\ left = 0
            IN  /\ bucket' = IF bucketGone THEN NoBucket ELSE Some(left)
                /\ calls' = calls
                     \o (IF listed > 0 THEN <<"delete_objects">> ELSE <<>>)
                     \o (IF listed = 0 \/ objectsOk THEN <<"delete_bucket">> ELSE <<>>)
                /\ printed' = {<<"bucket", IF bucketGone THEN "deleted" ELSE "error">>}
                /\ faultFree' = (faultFree /\ (bucketGone \/ n > ListPageSize))
  /\ Goto("c_secret")
  /\ UNCHANGED <<runtimes, rtCount, roles, pools, poolCount, secret, tables, prog,
                 runs, deployLocals, cleanupLocals, loopLocals, response, binds,
                 detection, secretAtStart, followsDone, serverVars>>

\* cleanup_secrets_manager: force-delete of the credential entry
CleanupSecret ==
  /\ prog = "cleanup" /\ pc = "c_secret"
  /\ calls' = Append(calls, "delete_secret")
  /\ \E ok \in BOOLEAN :
       /\ faultFree' = (faultFree /\ ok)
       /\ IF secret = NoSecret
          THEN /\ printed' = {<<"secret", IF ok THEN "not found" ELSE "error">>}
               /\ UNCHANGED secret
          ELSE IF ok
          THEN /\ secret' = NoSecret
               /\ printed' = {<<"secret", "deleted">>}
          ELSE /\ printed' = {<<"secret", "error">>}
               /\ UNCHANGED secret
  /\ Goto("c_report")
  /\ UNCHANGED <<runtimes, rtCount, roles, pools, poolCount, tables, bucket, prog,
                 runs, deployLocals, cleanupLocals, loopLocals, response, binds,
                 detection, secretAtStart, followsDone, serverVars>>

FinalReport_needs_confirmed_deletion(deleted, details) ==
  IF deleted THEN "Cleanup completed successfully!"
  ELSE "Cleanup completed with manual steps required"
\* if runtime_deleted or not server_details: the success line, else the
\* manual-steps line
FinalReport(deleted, details) ==
  IF deleted \/ details = None THEN "Cleanup completed successfully!"
  ELSE "Cleanup completed with manual steps required"

\* the last lines of main()
CleanupReport ==
  /\ prog = "cleanup" /\ pc = "c_report"
  /\ Finish(ExitSuccess, FinalReport(runtime_deleted, server_details))
  /\ UNCHANGED <<provider, prog, runs, deployLocals, cleanupLocals, loopLocals,
                 response, calls, binds, detection, secretAtStart, followsDone, serverVars, printed>>
  /\ UNCHANGED faultFree

\* -------------------------------------------------------------- the system
Next ==
  \/ DeployStart
  \/ DeployDetect
  \/ DeployConfirm
  \/ DeployCognito
  \/ DeployConfigure
  \/ DeployPreCheck
  \/ DeployPreProbe
  \/ DeployPreDone
  \/ DeployLaunch
  \/ DeployPostProbe
  \/ DeployPostDone
  \/ DeployFetchRole
  \/ DeployBind
  \/ DeployFinish
  \/ DeployInterrupt
  \/ CleanupStart
  \/ CleanupConfirm
  \/ CleanupRuntime
  \/ CleanupWaitProbe
  \/ CleanupWaitTimeout
  \/ RuntimeGone
  \/ CleanupRole
  \/ CleanupCognito
  \/ CleanupTables
  \/ CleanupBucket
  \/ CleanupSecret
  \/ CleanupReport

\* What the programs did not make on an account that holds a deployment:
\* the allowed clients of the runtime's authorizer (none, or several), a
\* managed policy on its role, and a bucket that holds one object more than
\* a listing page returns
DeployedAccounts ==
  { [clients |-> <<>>, managed |-> ManagedPolicyArns, stored |-> NoBucket],
    [clients |-> <<ClientId(1), ClientId(2)>>, managed |-> {},
     stored |-> Some(ListPageSize + 1)] }

\* the account after one new deployment: the runtime with its auto-created
\* roles bound, its pool, domain and secret
InitDeployed ==
  /\ \E account \in DeployedAccounts :
       /\ bucket = account.stored
       /\ runtimes =
            <<ForeignRuntime,
              NewRuntime(1, [ConfigParams(FALSE, None, Some(CredentialBundle(1)))
                               EXCEPT !.allowedClients = account.clients],
                         RoleArn(RuntimeRoleName))>>
       /\ roles = [r \in RoleNames |->
                     IF r = RuntimeRoleName THEN PolicyNames \cup account.managed
                     ELSE {}]
  /\ rtCount = 1
  /\ pools = [p \in {PoolId(1)} |-> [domain |-> TRUE]]
  /\ poolCount = 1
  /\ secret = Some(CredentialBundle(1))
  /\ tables = {}
  /\ prog = "none"
  /\ pc = "idle"
  /\ runs = 1
  /\ existing_config = None
  /\ reuse_existing = FALSE
  /\ cognito_config = None
  /\ config_params = None
  /\ attempt = 0
  /\ sleep_time = 0
  /\ roles_verified = FALSE
  /\ role_verified = FALSE
  /\ execution_role_name = None
  /\ launch_result = None
  /\ server_details = None
  /\ runtime_deleted = FALSE
  /\ exitStatus = None
  /\ report = ""
  /\ response = None
  /\ calls = <<>>
  /\ binds = <<>>
  /\ detection = "none"
  /\ secretAtStart = NoSecret
  /\ followsDone = FALSE
  /\ ServerDown
  /\ printed = {}
  /\ faultFree = TRUE

Spec == Init /\ [][Next]_vars
\* the same programs on an account that load_data.py has populated
SpecLoaded == InitLoaded /\ [][Next]_vars
\* the same programs on an account that holds a deployment
SpecDeployed == InitDeployed /\ [][Next]_vars

\* ------------------------------------------------------------- data loader
\* load_data.py, run on its own before deploy: check_and_create_resources,
\* then the table loads and the upload.  The account it starts on has any
\* of the tables and no bucket, an empty one or a loaded one.
InitLoad ==
  /\ tables \in SUBSET TableNames
  /\ bucket \in {NoBucket, Some(0), Some(MedicalRecordCount)}
  /\ runtimes = <<ForeignRuntime>>
  /\ rtCount = 0
  /\ roles = EmptyRoles
  /\ pools = EmptyPools
  /\ poolCount = 0
  /\ secret = NoSecret
  /\ prog = "none"
  /\ pc = "idle"
  /\ runs = 0
  /\ existing_config = None
  /\ reuse_existing = FALSE
  /\ cognito_config = None
  /\ config_params = None
  /\ attempt = 0
  /\ sleep_time = 0
  /\ roles_verified = FALSE
  /\ role_verified = FALSE
  /\ execution_role_name = None
  /\ launch_result = None
  /\ server_details = None
  /\ runtime_deleted = FALSE
  /\ exitStatus = None
  /\ report = ""
  /\ response = None
  /\ calls = <<>>
  /\ binds = <<>>
  /\ detection = "none"
  /\ secretAtStart = NoSecret
  /\ followsDone = FALSE
  /\ ServerDown
  /\ printed = {}
  /\ faultFree = TRUE

\* what an existence check (table.load, head_bucket) can answer
CheckAnswers == {"exists", "not_found", "denied"}
\* the provider answers a check as its state demands, or refuses it
CheckAnswerFits(answer, present) ==
  answer = "denied" \/ (answer = "exists") = present

CreateAfterCheck_on_any_failure(answer) == answer # "exists"
\* only the not-found handlers hold a create call
CreateAfterCheck(answer) == answer = "not_found"

LoadTableAt(label) == IF label = "l_applicants" THEN ApplicantsTable ELSE ClaimsTable
LoadAfter(label) ==
  CASE label = "l_applicants" -> "l_claims"
    [] label = "l_claims" -> "l_bucket"
    [] OTHER -> "l_data"

loadFrame ==
  <<runtimes, rtCount, roles, pools, poolCount, secret, deployLocals, cleanupLocals,
    loopLocals, response, binds, detection, secretAtStart, followsDone,
    serverVars>>

\* main() of load_data.py up to create_dynamodb_tables(): data generation
LoadStart ==
  /\ pc \in {"idle", "exit"}
  /\ runs < MaxRuns
  /\ runs' = runs + 1
  /\ prog' = "load"
  /\ pc' = "l_applicants" /\ exitStatus' = None /\ report' = ""
  /\ calls' = <<>>
  /\ printed' = {}
  /\ faultFree' = TRUE
  /\ UNCHANGED <<tables, bucket, loadFrame>>

\* one iteration of the loop of _check_dynamodb_tables; a RuntimeError
\* leaves main() as a traceback
LoadCheckTable ==
  /\ prog = "load" /\ pc \in {"l_applicants", "l_claims"}
  /\ LET t == LoadTableAt(pc)
     IN  \E answer \in CheckAnswers, createOk \in BOOLEAN :
           /\ CheckAnswerFits(answer, t \in tables)
           /\ faultFree' = (faultFree /\ answer # "denied" /\ createOk)
           /\ IF CreateAfterCheck(answer)
              THEN /\ calls' = Append(calls, "create_table")
                   /\ IF createOk /\ t \notin tables
                      THEN /\ tables' = tables \cup {t}
                           /\ printed' = {<<t, "created">>}
                           /\ Goto(LoadAfter(pc))
                      ELSE /\ UNCHANGED <<tables, printed>>
                           /\ Finish(ExitFailure, "Traceback")
              ELSE /\ UNCHANGED <<tables, calls>>
                   /\ IF answer = "exists"
                      THEN printed' = {<<t, "exists">>} /\ Goto(LoadAfter(pc))
                      ELSE UNCHANGED printed /\ Finish(ExitFailure, "Traceback")
  /\ UNCHANGED <<bucket, prog, runs, loadFrame>>

\* _check_s3_bucket: head_bucket, and create_bucket on 404 or NoSuchBucket
LoadCheckBucket ==
  /\ prog = "load" /\ pc = "l_bucket"
  /\ \E answer \in CheckAnswers, createOk \in BOOLEAN :
       /\ CheckAnswerFits(answer, bucket # NoBucket)
       /\ faultFree' = (faultFree /\ answer # "denied" /\ createOk)
       /\ IF CreateAfterCheck(answer)
          THEN /\ calls' = Append(calls, "create_bucket")
               /\ IF createOk /\ bucket = NoBucket
                  THEN /\ bucket' = Some(0)
                       /\ printed' = {<<"bucket", "created">>}
                       /\ Goto(LoadAfter(pc))
                  ELSE /\ UNCHANGED <<bucket, printed>>
                       /\ Finish(ExitFailure, "Traceback")
          ELSE /\ UNCHANGED <<bucket, calls>>
               /\ IF answer = "exists"
                  THEN printed' = {<<"bucket", "exists">>} /\ Goto(LoadAfter(pc))
                  ELSE UNCHANGED printed /\ Finish(ExitFailure, "Traceback")
  /\ UNCHANGED <<tables, prog, runs, loadFrame>>

\* the rest of main(): the table loads, create_s3_bucket_and_upload (its
\* create call is answered "already owned" and passed over, its 1000 keys
\* are the same in every run) and the sample files
LoadData ==
  /\ prog = "load" /\ pc = "l_data"
  /\ \E ok \in BOOLEAN :
       /\ faultFree' = (faultFree /\ ok)
       /\ IF ok /\ tables = TableNames /\ bucket # NoBucket
          THEN /\ bucket' = Some(IF Val(bucket) > MedicalRecordCount
                                 THEN Val(bucket) ELSE MedicalRecordCount)
               /\ calls' = calls \o <<"put_item", "create_bucket", "put_object">>
               /\ Finish(ExitSuccess, "Completed synthetic data generation.")
          ELSE /\ UNCHANGED <<bucket, calls>>
               /\ Finish(ExitFailure, "Traceback")
  /\ UNCHANGED <<tables, prog, runs, printed, loadFrame>>

NextLoad ==
  \/ LoadStart
  \/ LoadCheckTable
  \/ LoadCheckBucket
  \/ LoadData

SpecLoad == InitLoad /\ [][NextLoad]_vars

\* ------------------------------------------------------------- MCP server
\* mcpserver.py.  An identifier is the sequence of its characters.
Newline == "\n"
AsciiDigits == {"0", "1", "2", "3", "4", "5", "6", "7", "8", "9"}
\* \d of a str pattern matches every Unicode decimal digit; "u0663" stands
\* for ARABIC-INDIC DIGIT THREE
DecimalDigits == AsciiDigits \cup {"u0663"}
ApplicantPrefix == <<"A", "P", "P", "-">>
ClaimPrefix == <<"C", "L", "M", "-">>
IdDigits == 4
ClaimCount == 500

\* re.match(r'^PREFIX\d{4}$', id): the prefix at the start, four characters
\* of class \d, then $, which matches at the end of the string and also
\* just before a newline that ends the string
MatchesIdPattern(prefix, id) ==
  /\ Len(id) \in {Len(prefix) + IdDigits, Len(prefix) + IdDigits + 1}
  /\ SubSeq(id, 1, Len(prefix)) = prefix
  /\ \A i \in 1..IdDigits : id[Len(prefix) + i] \in DecimalDigits
  /\ Len(id) = Len(prefix) + IdDigits + 1 => id[Len(id)] = Newline
validate_applicant_id(applicant_id) == MatchesIdPattern(ApplicantPrefix, applicant_id)
validate_claim_id(claim_id) == MatchesIdPattern(ClaimPrefix, claim_id)

DigitValue(c) == CHOOSE n \in 0..9 : ToString(n) = c
RECURSIVE DecimalValue(_)
DecimalValue(ds) ==
  IF ds = <<>> THEN 0
  ELSE 10 * DecimalValue(SubSeq(ds, 1, Len(ds) - 1)) + DigitValue(ds[Len(ds)])
\* the keys load_data.py writes: f'APP-{i+1:04d}' and f'CLM-{i+1:04d}' for
\* i in range(count)
LoadedKey(prefix, count, key) ==
  /\ Len(key) = Len(prefix) + IdDigits
  /\ SubSeq(key, 1, Len(prefix)) = prefix
  /\ \A i \in 1..IdDigits : key[Len(prefix) + i] \in AsciiDigits
  /\ DecimalValue(SubSeq(key, Len(prefix) + 1, Len(key))) \in 1..count

\* the format the validators' comments state: the prefix and exactly four
\* digits, nothing else (a digit read as widely as \d reads it)
IsExactId(prefix, id) ==
  /\ Len(id) = Len(prefix) + IdDigits
  /\ SubSeq(id, 1, Len(prefix)) = prefix
  /\ \A i \in 1..IdDigits : id[Len(prefix) + i] \in DecimalDigits

\* identifiers a caller may send
IdInputs ==
  LET prefixes == {ApplicantPrefix, ClaimPrefix, <<"a", "p", "p", "-">>}
      bodies == [1..IdDigits -> {"0", "1"}]
                  \cup {<<"0", "0", "1">>, <<"0", "0", "0", "0", "1">>,
                        <<"0", "0", "x", "1">>, <<"0", "0", "0", "u0663">>}
      suffixes == {<<>>, <<Newline>>, <<" ">>}
  IN  {p \o b \o x : p \in prefixes, b \in bodies, x \in suffixes}

ErrorValue(text) == [kind |-> "error", text |-> text, key |-> <<>>]
ReadOutcomes == {"ok", "failed"}

\* get_applicant_data: client check, validation, then table.get_item
get_applicant_data(available, applicant_id, outcome) ==
  IF ~available THEN [value |-> ErrorValue("Database service unavailable"), reads |-> <<>>]
  ELSE IF ~validate_applicant_id(applicant_id)
  THEN [value |-> ErrorValue("Invalid applicant ID format"), reads |-> <<>>]
  ELSE [reads |-> << <<"get_item", ApplicantsTable, applicant_id>> >>,
        value |->
          IF ApplicantsTable \notin tables THEN ErrorValue("Database table not found")
          ELSE IF outcome = "failed" THEN ErrorValue("Database access error")
          ELSE IF ~LoadedKey(ApplicantPrefix, MedicalRecordCount, applicant_id)
          THEN [kind |-> "error", text |-> "Applicant not found", key |-> applicant_id]
          ELSE [kind |-> "item", text |-> "applicant", key |-> applicant_id]]

\* get_medical_records: client check, validation, then s3_client.get_object
get_medical_records(available, applicant_id, outcome) ==
  IF ~available THEN [value |-> ErrorValue("S3 client not initialized"), reads |-> <<>>]
  ELSE IF ~validate_applicant_id(applicant_id)
  THEN [value |-> ErrorValue("Invalid applicant ID format"), reads |-> <<>>]
  ELSE [reads |-> << <<"get_object", "bucket", applicant_id>> >>,
        value |->
          IF bucket = NoBucket THEN ErrorValue("Medical records storage not available")
          ELSE IF outcome = "failed" THEN ErrorValue("Medical records access error")
          ELSE IF ~LoadedKey(ApplicantPrefix, Val(bucket), applicant_id)
          THEN ErrorValue("Medical records not found")
          ELSE [kind |-> "item", text |-> "summary", key |-> applicant_id]]

\* get_claim_data: client check, validation, then table.get_item
get_claim_data(available, claim_id, outcome) ==
  IF ~available THEN [value |-> ErrorValue("Database service unavailable"), reads |-> <<>>]
  ELSE IF ~validate_claim_id(claim_id)
  THEN [value |-> ErrorValue("Invalid claim ID format"), reads |-> <<>>]
  ELSE [reads |-> << <<"get_item", ClaimsTable, claim_id>> >>,
        value |->
          IF ClaimsTable \notin tables THEN ErrorValue("Database table not found")
          ELSE IF outcome = "failed" THEN ErrorValue("Database access error")
          ELSE IF ~LoadedKey(ClaimPrefix, ClaimCount, claim_id)
          THEN [kind |-> "error", text |-> "Claim not found", key |-> claim_id]
          ELSE [kind |-> "item", text |-> "claim", key |-> claim_id]]

\* how bedrock_client.converse may end; without a client no request is made
ReasoningOutcomes(available) ==
  IF available THEN {"ok", "validation", "throttling", "other"} ELSE {"unavailable"}
\* nova_reasoning_request: every failure is returned as a dict with the one
\* key 'error'
nova_reasoning_request(outcome) ==
  CASE outcome = "ok" -> [reasoning |-> "steps", response |-> "answer"]
    [] outcome = "unavailable" -> [error |-> "AI service unavailable"]
    [] outcome = "validation" -> [error |-> "Invalid AI request"]
    [] outcome = "throttling" -> [error |-> "AI service temporarily unavailable"]
    [] OTHER -> [error |-> "AI processing error"]
\* result.get(key, "")
GetOr(result, key) == IF key \in DOMAIN result THEN result[key] ELSE ""

\* the dict a tool returns after its reasoning request: the status is the
\* literal "success", the two texts are read from the result with "" as the
\* default
ToolSuccess(result) ==
  [status |-> "success", reasoning_process |-> GetOr(result, "reasoning"),
   answer |-> GetOr(result, "response")]
ToolError(text) == [status |-> "error", reasoning_process |-> "", answer |-> text]

serverFrame ==
  <<provider, pc, runs, deployLocals, cleanupLocals, loopLocals, exitStatus, report,
    response, calls, binds, detection, secretAtStart, followsDone, printed, faultFree>>

\* the account the server runs on: any of the tables, the bucket loaded or
\* missing
InitServer ==
  /\ tables \in SUBSET TableNames
  /\ bucket \in {NoBucket, Some(MedicalRecordCount)}
  /\ runtimes = <<ForeignRuntime>>
  /\ rtCount = 0
  /\ roles = EmptyRoles
  /\ pools = EmptyPools
  /\ poolCount = 0
  /\ secret = NoSecret
  /\ prog = "none"
  /\ pc = "idle"
  /\ runs = 0
  /\ existing_config = None
  /\ reuse_existing = FALSE
  /\ cognito_config = None
  /\ config_params = None
  /\ attempt = 0
  /\ sleep_time = 0
  /\ roles_verified = FALSE
  /\ role_verified = FALSE
  /\ execution_role_name = None
  /\ launch_result = None
  /\ server_details = None
  /\ runtime_deleted = FALSE
  /\ exitStatus = None
  /\ report = ""
  /\ response = None
  /\ calls = <<>>
  /\ binds = <<>>
  /\ detection = "none"
  /\ secretAtStart = NoSecret
  /\ followsDone = FALSE
  /\ printed = {}
  /\ faultFree = TRUE
  /\ ServerDown

\* import of the module: initialize_aws_clients returns the three clients,
\* or three None when anything in it raised
ServerStart ==
  /\ prog = "none"
  /\ prog' = "server"
  /\ clients' \in BOOLEAN
  /\ UNCHANGED <<tool, reads, reasoning, reply, serverFrame>>

\* enterprise_risk_assessment
RiskAssessment ==
  /\ prog = "server" /\ tool = None
  /\ \E applicant_id \in IdInputs, o1 \in ReadOutcomes, o2 \in ReadOutcomes,
        asked \in ReasoningOutcomes(clients) :
       LET applicant_data == get_applicant_data(clients, applicant_id, o1)
           medical_data == get_medical_records(clients, applicant_id, o2)
       IN  /\ tool' = Some([name |-> "enterprise_risk_assessment", id |-> applicant_id])
           /\ IF applicant_data.value.kind = "error"
              THEN /\ reads' = applicant_data.reads
                   /\ reasoning' = "none"
                   /\ reply' = Some(ToolError("Applicant not found"))
              ELSE /\ reads' = applicant_data.reads \o medical_data.reads
                   /\ reasoning' = asked
                   /\ reply' = Some(ToolSuccess(nova_reasoning_request(asked)))
  /\ UNCHANGED <<clients, prog, serverFrame>>

\* enterprise_medical_analysis: without medical records it analyses the
\* applicant's profile
MedicalAnalysis ==
  /\ prog = "server" /\ tool = None
  /\ \E applicant_id \in IdInputs, o1 \in ReadOutcomes, o2 \in ReadOutcomes,
        asked \in ReasoningOutcomes(clients) :
       LET applicant_data == get_applicant_data(clients, applicant_id, o1)
           medical_data == get_medical_records(clients, applicant_id, o2)
       IN  /\ tool' = Some([name |-> "enterprise_medical_analysis", id |-> applicant_id])
           /\ IF applicant_data.value.kind = "error"
              THEN /\ reads' = applicant_data.reads
                   /\ reasoning' = "none"
                   /\ reply' = Some(ToolError("Applicant not found"))
              ELSE /\ reads' = applicant_data.reads \o medical_data.reads
                   /\ reasoning' = asked
                   /\ reply' = Some(ToolSuccess(nova_reasoning_request(asked)))
  /\ UNCHANGED <<clients, prog, serverFrame>>

\* enterprise_fraud_detection: the claim, then the applicant the claim names
FraudDetection ==
  /\ prog = "server" /\ tool = None
  /\ \E claim_id \in IdInputs, o1 \in ReadOutcomes, o2 \in ReadOutcomes,
        asked \in ReasoningOutcomes(clients),
        named \in {ApplicantPrefix \o <<"0", "0", "0", "1">>,
                   ApplicantPrefix \o <<"1", "0", "0", "0">>} :
       LET claim_data == get_claim_data(clients, claim_id, o1)
           applicant_data == get_applicant_data(clients, named, o2)
       IN  /\ tool' = Some([name |-> "enterprise_fraud_detection", id |-> claim_id])
           /\ IF claim_data.value.kind = "error"
              THEN /\ reads' = claim_data.reads
                   /\ reasoning' = "none"
                   /\ reply' = Some(ToolError("Claim not found"))
              ELSE /\ reads' = claim_data.reads \o applicant_data.reads
                   /\ reasoning' = asked
                   /\ reply' = Some(ToolSuccess(nova_reasoning_request(asked)))
  /\ UNCHANGED <<clients, prog, serverFrame>>

\* enterprise_underwriting_decision: applicant, medical records, then a scan
\* of the claims table filtered by the applicant id, whose failure leaves
\* an empty history
UnderwritingDecision ==
  /\ prog = "server" /\ tool = None
  /\ \E applicant_id \in IdInputs, o1 \in ReadOutcomes, o2 \in ReadOutcomes,
        asked \in ReasoningOutcomes(clients) :
       LET applicant_data == get_applicant_data(clients, applicant_id, o1)
           medical_data == get_medical_records(clients, applicant_id, o2)
       IN  /\ tool' = Some([name |-> "enterprise_underwriting_decision",
                            id |-> applicant_id])
           /\ IF applicant_data.value.kind = "error"
              THEN /\ reads' = applicant_data.reads
                   /\ reasoning' = "none"
                   /\ reply' = Some(ToolError("Applicant not found"))
              ELSE /\ reads' = applicant_data.reads \o medical_data.reads
                                 \o << <<"scan", ClaimsTable, applicant_id>> >>
                   /\ reasoning' = asked
                   /\ reply' = Some(ToolSuccess(nova_reasoning_request(asked)))
  /\ UNCHANGED <<clients, prog, serverFrame>>

\* enterprise_analytics: both tables are scanned inside the try; without a
\* client, or when a scan raises, the handler returns the error status
Analytics ==
  /\ prog = "server" /\ tool = None
  /\ \E o1 \in ReadOutcomes, o2 \in ReadOutcomes, asked \in ReasoningOutcomes(clients) :
       LET firstOk == clients /\ ApplicantsTable \in tables /\ o1 = "ok"
           secondOk == firstOk /\ ClaimsTable \in tables /\ o2 = "ok"
       IN  /\ tool' = Some([name |-> "enterprise_analytics", id |-> <<>>])
           /\ reads' = (IF clients THEN << <<"scan", ApplicantsTable, <<>>>> >> ELSE <<>>)
                         \o (IF firstOk THEN << <<"scan", ClaimsTable, <<>>>> >> ELSE <<>>)
           /\ IF secondOk
              THEN /\ reasoning' = asked
                   /\ reply' = Some(ToolSuccess(nova_reasoning_request(asked)))
              ELSE /\ reasoning' = "none"
                   /\ reply' = Some(ToolError("Analytics processing failed"))
  /\ UNCHANGED <<clients, prog, serverFrame>>

\* the handler's return: the reply is sent, and the stateless server keeps
\* nothing of the call
Respond ==
  /\ prog = "server" /\ tool # None
  /\ tool' = None
  /\ reads' = <<>>
  /\ reasoning' = "none"
  /\ reply' = None
  /\ UNCHANGED <<clients, prog, serverFrame>>

NextServer ==
  \/ ServerStart
  \/ RiskAssessment
  \/ MedicalAnalysis
  \/ FraudDetection
  \/ UnderwritingDecision
  \/ Analytics
  \/ Respond

SpecServer == InitServer /\ [][NextServer]_vars

TypeOK ==
  /\ prog \in {"none", "deploy", "cleanup", "load", "server"}
  /\ runs \in 0..MaxRuns
  /\ attempt \in 0..24
  /\ sleep_time \in 0..15
  /\ poolCount \in 0..MaxPools
  /\ Cardinality(secret) <= 1
  /\ followsDone \in BOOLEAN
  /\ clients \in BOOLEAN
  /\ reasoning \in {"none", "ok", "unavailable", "validation", "throttling", "other"}

\* ------------------------------------------------------------- properties
RoleOps == {"delete_role_policy", "detach_role_policy", "delete_role"}
ProvisionerOps ==
  {"create_user_pool", "create_user_pool_domain", "create_resource_server",
   "create_user_pool_client", "create_secret"}
SecretOps == {"create_secret", "put_secret_value", "update_secret", "delete_secret"}
Issued(ops) == {i \in 1..Len(calls) : calls[i] \in ops}
Interrupted == report = "DEPLOYMENT CANCELLED BY USER (Ctrl+C)"
DeployDone == prog = "deploy" /\ pc = "exit" /\ exitStatus = Some(ExitSuccess)
Affirmations == {<<"y">>, <<"y", "e", "s">>}

\* C1: in cleanup the role is stripped or deleted only by the step that
\* follows a deletion wait whose probe observed not-found, with the runtime
\* gone from the provider; after a failed delete request, an exhausted wait
\* or a lookup that found no runtime the role step issues no call and
\* leaves every role as it was.
C1_RoleOnlyAfterConfirmedDeletion ==
  [][ (prog = "cleanup" /\ prog' = "cleanup" /\ pc # "exit")
      => /\ (roles' # roles \/ Issued(RoleOps)' # Issued(RoleOps))
              => /\ pc = "c_role"
                 /\ \E k \in 1..DeleteMaxAttempts :
                      printed = {<<"runtime", "deleted", ElapsedReport(k)>>}
                 /\ RuntimeById(runtimes, Val(server_details).agent_runtime_id) = {}
         /\ ( /\ pc = "c_role"
              /\ \E k \in 0..DeleteMaxAttempts :
                   printed \in { {<<"runtime", "error", k>>},
                                 {<<"runtime", "timed out", ElapsedReport(k)>>},
                                 {<<"runtime", "not found", k>>} } )
              => roles' = roles /\ calls' = calls ]_vars

C1_RoleDeletedAfterConfirmation ==
  /\ prog = "cleanup" /\ pc = "c_cognito"
  /\ printed = {<<"role", "deleted">>}
  /\ runtime_deleted
  /\ "delete_role" \in {calls[i] : i \in 1..Len(calls)}

\* C2: a deploy run that took the update branch (a runtime was found and
\* the operator affirmed the update prompt) issues no provisioner call and
\* no call on the secret, and the secret entry stays what it was when the
\* run started.
C2_UpdateKeepsCredentials ==
  (prog = "deploy" /\ (reuse_existing \/ (response # None /\ Val(response) \in Affirmations)))
    => /\ secret = secretAtStart
       /\ Issued(ProvisionerOps \cup SecretOps) = {}

C2_UpdateRunDone ==
  /\ DeployDone /\ reuse_existing
  /\ existing_config # None
  /\ secret # NoSecret /\ secret = secretAtStart
  /\ "launch" \in {calls[i] : i \in 1..Len(calls)}

\* C3: when detection found a runtime and the normalised answer to the
\* update prompt is neither "y" nor "yes", the run has ended with exit
\* status 2 and has issued no mutating provider call.
C3_RefusalCancelsWithoutMutation ==
  (prog = "deploy" /\ response # None /\ Val(response) \notin Affirmations)
    => /\ pc = "exit"
       /\ exitStatus = Some(ExitCancelled)
       /\ exitStatus # Some(ExitFailure) /\ exitStatus # Some(ExitSuccess)
       /\ calls = <<>>
       /\ secret = secretAtStart

C3_InvalidAnswerCancelled ==
  /\ prog = "deploy" /\ pc = "exit"
  /\ existing_config # None
  /\ response = Some(<<"y", "e">>)
  /\ exitStatus = Some(ExitCancelled)
  /\ calls = <<>>

C5_ProvisionOnlyAfterConfirmedAbsence ==
  (prog = "deploy" /\ (pc = "d_cognito" \/ Issued(ProvisionerOps) # {}))
    => detection = "absent"

\* C6: when setup_cognito_user_pool has failed after creating its pool, the
\* pool it created is no longer registered in the provider.
C6_FailedProvisioningLeavesNoPool ==
  ( /\ prog = "deploy" /\ pc = "exit"
    /\ Len(calls) >= 2 /\ calls[1] = "create_user_pool"
    /\ cognito_config = None )
    => PoolId(poolCount) \notin DOMAIN pools

\* C7: the second run, a deploy that starts where a new-mode deploy left
\* the secret stored and no runtime created, and in which no call fails for
\* a reason of the provider's own and the operator does not interrupt,
\* ends Done.
C7_RerunAfterPartialFailureReachesDone ==
  ( /\ prog = "deploy" /\ pc = "exit" /\ runs = 2
    /\ secretAtStart # NoSecret
    /\ detection = "absent"
    /\ faultFree /\ ~Interrupted )
    => exitStatus = Some(ExitSuccess)

\* C8: in new mode, when the post-launch loop has used its 24 attempts
\* without verifying the role, the run ends there with the failure status
\* (or the operator's interrupt), add_permissions was not invoked, and no
\* new-mode run is at the binder without a verified role.
C8_UnverifiedRoleAborts ==
  [][ /\ ( /\ prog = "deploy" /\ pc = "d_postloop"
           /\ ~role_verified /\ attempt >= PostLaunchMaxAttempts )
           => /\ pc' = "exit"
              /\ binds' = <<>>
              /\ exitStatus' # Some(ExitSuccess)
              /\ (exitStatus' = Some(ExitFailure) \/ Interrupted')
      /\ (prog' = "deploy" /\ ~reuse_existing' /\ pc' \in {"d_bind", "d_finish"})
           => role_verified' ]_vars

C8_AbortedAfterExhaustedVerification ==
  /\ prog = "deploy" /\ pc = "exit"
  /\ exitStatus = Some(ExitFailure)
  /\ ~reuse_existing /\ launch_result # None
  /\ ~role_verified
  /\ binds = <<>>

\* C9: the pre-launch loop runs in new mode only and makes at most 24
\* probes, one per iteration; however it ends (roles seen, attempts used up
\* with the roles never seen or with every probe raising), the run goes on
\* to the launch step and the launch call is issued, unless the operator
\* interrupts; an update-mode run never enters the check.
C9_PreLaunchCheckIsSoft ==
  [][ prog' = "deploy" =>
        /\ pc' = "d_preloop" => (attempt' <= PreLaunchMaxAttempts /\ ~reuse_existing')
        /\ (pc = "d_preloop" /\ pc' = "d_preloop") => attempt' \in {attempt, attempt + 1}
        /\ (pc = "d_preloop" /\ pc' # "d_preloop" /\ ~Interrupted') => pc' = "d_launch"
        /\ (pc = "d_launch" /\ pc' # "d_launch" /\ ~Interrupted')
             => calls' = Append(calls, "launch")
        /\ reuse_existing' => pc' \notin {"d_precheck", "d_preloop"}
        /\ (pc # "d_launch" /\ pc' = "d_launch" /\ ~reuse_existing') => pc = "d_preloop"
    ]_vars

C9_LaunchedAfterTimedOutCheck ==
  /\ prog = "deploy" /\ pc = "d_postloop"
  /\ ~reuse_existing /\ ~roles_verified
  /\ launch_result # None
  /\ calls[Len(calls)] = "launch"

\* C10: a deploy run that has reached Done, in either mode, has invoked
\* add_permissions exactly once, after its launch call, with the role name
\* that is the last segment of the role reference of the runtime it
\* launched; no run invokes add_permissions before its launch returned.
C10_DoneBoundOnceToLaunchedRole ==
  /\ (prog = "deploy" /\ binds # <<>>) => launch_result # None
  /\ DeployDone =>
       /\ Len(binds) = 1
       /\ \A i \in Issued({"put_role_policy"}), j \in Issued({"launch"}) : j < i
       /\ \E i \in OurRuntimes(runtimes) :
            /\ runtimes[i].arn = Val(launch_result)
            /\ binds[1] = Some(LastSegment(runtimes[i].roleArn))

C10_UpdateRunBoundCurrentRole ==
  /\ DeployDone /\ reuse_existing
  /\ binds = <<Some(RuntimeRoleName)>>
  /\ Cardinality(Issued({"put_role_policy"})) = 3
  /\ roles[RuntimeRoleName] = PolicyNames

\* C11: a deploy run in which one of the binder's policy puts (or the account
\* lookup before them) failed does not report successful completion: no
\* run ends Done after add_permissions printed its warning.
C11_BinderFailureFailsRun ==
  DeployDone => printed # {<<"permissions", "warning">>}

\* C12: a deploy run that found no runtime of the configured name and in which
\* every provider call succeeded has, when it is Done, created in this order
\* the pool, its domain, the resource server, the client and the secret, the
\* two tables and the bucket, then launched the runtime and put exactly three
\* policies on the role; both tables and the bucket then exist.
C12_ScenarioACreatesEverythingInOrder ==
  (DeployDone /\ faultFree /\ detection = "absent") =>
     /\ calls = CognitoCalls \o <<"create_table", "create_table", "create_bucket">>
                  \o <<"launch">> \o BinderCalls(0, execution_role_name, roles)
     /\ tables = TableNames
     /\ bucket # NoBucket

\* C13: when a new-mode deploy run is Done, the inventory lookup of deploy for
\* the configured name, with its provider calls succeeding, returns the
\* runtime the run launched, and the role name it returns (the last segment
\* of the role reference) is a role the role lookup finds, under the same
\* reference.
C13_CreateThenDetectConverges ==
  (DeployDone /\ ~reuse_existing) =>
     LET found == check_existing_mcp_server(runtimes, McpServerName, 0,
                                            [i \in 1..Len(runtimes) |-> "ok"])
     IN  /\ found # None
         /\ Val(found).agent_arn = Val(launch_result)
         /\ Val(found).execution_role_name \in DOMAIN roles
         /\ RoleArn(Val(found).execution_role_name) = Val(found).execution_role_arn

C13_NewRunDoneBehindForeignPage ==
  /\ DeployDone /\ ~reuse_existing /\ detection = "absent"
  /\ NumPages(runtimes) > 1
  /\ FirstMatchOnPage(runtimes, 1, McpServerName) = 0
  /\ RuntimeRoleName \in DOMAIN roles

\* C14: the deletion wait of cleanup_agentcore_runtime ends within 20 probes
\* whatever the probes answer: its counter never exceeds 20, every probe is
\* made with fewer than 20 probes behind it and either counts one more or
\* returns confirmed, and once 20 probes are counted the only step left to
\* the wait is the return of timed-out; while it waits a step is always
\* possible.
C14_WaitEndsWithinMaxAttempts ==
  [][ (prog = "cleanup" /\ pc = "c_wait")
      => /\ attempt <= DeleteMaxAttempts
         /\ IF attempt < DeleteMaxAttempts
            THEN ENABLED CleanupWaitProbe
            ELSE ENABLED CleanupWaitTimeout /\ ~ENABLED CleanupWaitProbe
         /\ runtimes' = runtimes
              => \/ /\ pc' = "c_wait"
                    /\ attempt < DeleteMaxAttempts /\ attempt' = attempt + 1
                 \/ /\ pc' = "c_role"
                    /\ attempt < DeleteMaxAttempts /\ runtime_deleted'
                 \/ /\ pc' = "c_role"
                    /\ attempt = DeleteMaxAttempts /\ ~runtime_deleted' ]_vars

C14_WaitRanOutAfterErrorsAndPresence ==
  /\ prog = "cleanup" /\ pc = "c_wait" /\ attempt = DeleteMaxAttempts
  /\ RuntimeById(runtimes, Val(server_details).agent_runtime_id) = {}

\* C15: when the probe first raises not-found on attempt k (errors before it
\* counting as not yet), the wait returns confirmed on that probe, the k-th,
\* and probes no more; the next step of teardown issues the deletion of the
\* bound role; and what the wait reports is k, the number of polls.
C15_ConfirmedOnKthProbeReportsK ==
  [][ /\ (prog = "cleanup" /\ pc = "c_wait" /\ pc' = "c_role" /\ runtime_deleted')
         => /\ attempt < DeleteMaxAttempts
            /\ RuntimeById(runtimes, Val(server_details).agent_runtime_id) = {}
            /\ printed' = {<<"runtime", "deleted", attempt + 1>>}
      /\ (prog = "cleanup" /\ pc = "c_role" /\ runtime_deleted /\ pc' # pc)
         => /\ pc' = "c_cognito"
            /\ Len(calls') > Len(calls) /\ calls'[Len(calls')] = "delete_role" ]_vars

\* C16: when 20 probes pass without a not-found, the wait returns timed-out
\* and reports the timeout; the role step that follows deletes nothing,
\* issues no call and prints the manual-cleanup text with the role's name;
\* and the run goes on through the pool, table, bucket and secret steps to
\* the report of manual steps, with both table deletions and the secret
\* deletion requested and no role touched on the way.
C16_TimeoutSkipsRoleAndGoesOn ==
  [][ (prog = "cleanup" /\ pc' # pc)
      => /\ (pc = "c_wait" /\ attempt = DeleteMaxAttempts)
              => /\ pc' = "c_role" /\ ~runtime_deleted'
                 /\ printed' = {<<"runtime", "timed out", ElapsedReport(DeleteMaxAttempts)>>}
         /\ (pc = "c_role" /\ ~runtime_deleted /\ server_details # None)
              => /\ pc' = "c_cognito" /\ roles' = roles /\ calls' = calls
                 /\ printed' = {<<"role", "manual cleanup">>,
                                <<"manual", Val(server_details).execution_role_name>>}
         /\ (~runtime_deleted /\ server_details # None)
              => /\ pc = "c_cognito" => pc' = "c_tables" /\ roles' = roles
                 /\ pc = "c_tables"
                      => /\ pc' = "c_bucket" /\ roles' = roles
                         /\ calls' = calls \o <<"delete_table", "delete_table">>
                 /\ pc = "c_bucket" => pc' = "c_secret" /\ roles' = roles
                 /\ pc = "c_secret"
                      => /\ pc' = "c_report" /\ roles' = roles
                         /\ calls' = Append(calls, "delete_secret")
                 /\ pc = "c_report"
                      => report' = "Cleanup completed with manual steps required" ]_vars

C16_TimedOutRunCleanedTheRest ==
  /\ prog = "cleanup" /\ pc = "c_report"
  /\ ~runtime_deleted /\ server_details # None
  /\ \E i \in OurRuntimes(runtimes) : runtimes[i].status = "DELETING"
  /\ Val(server_details).execution_role_name \in DOMAIN roles
  /\ DOMAIN pools = {} /\ tables = {} /\ bucket = NoBucket /\ secret = NoSecret
  /\ calls = <<"delete_agent_runtime", "delete_user_pool_domain", "delete_user_pool",
               "delete_table", "delete_table", "delete_objects", "delete_bucket",
               "delete_secret">>

\* C17: in a cleanup run that was confirmed, every step hands over to the
\* next whatever it or an earlier step met: the runtime step to the wait or
\* the role step, the wait to the role step, then the pool, the tables (both
\* deletions requested), the bucket, the secret (its deletion requested) and
\* the report, which ends the run with status 0; the run is never stuck.
C17_EveryStepHandsOver ==
  [][ (prog = "cleanup" /\ pc' # pc /\ pc \notin {"c_confirm", "exit"})
      => /\ pc = "c_runtime" => pc' \in {"c_wait", "c_role"}
         /\ pc = "c_wait" => pc' = "c_role"
         /\ pc = "c_role" => pc' = "c_cognito"
         /\ pc = "c_cognito" => pc' = "c_tables"
         /\ pc = "c_tables"
              => pc' = "c_bucket" /\ calls' = calls \o <<"delete_table", "delete_table">>
         /\ pc = "c_bucket" => pc' = "c_secret"
         /\ pc = "c_secret" => pc' = "c_report" /\ calls' = Append(calls, "delete_secret")
         /\ pc = "c_report" => pc' = "exit" /\ exitStatus' = Some(ExitSuccess)
         /\ pc' # "exit" => ENABLED (Next /\ pc' # pc) ]_vars

C17_SecretDeletedAfterEveryOtherStepFailed ==
  /\ prog = "cleanup" /\ pc = "c_report"
  /\ printed = {<<"secret", "deleted">>}
  /\ \E i \in OurRuntimes(runtimes) : runtimes[i].status = "READY"
  /\ DOMAIN pools # {} /\ tables = TableNames /\ bucket = Some(MedicalRecordCount)
  /\ calls = <<"delete_agent_runtime", "delete_user_pool_domain", "delete_user_pool",
               "delete_table", "delete_table", "delete_objects", "delete_secret">>

\* C18: the mutating calls a cleanup run has issued are in the order runtime
\* deletion request, role policies and role, pool domain, pool, the two
\* tables, bucket objects, bucket, secret: no call is followed directly by
\* one of an earlier kind (so none is followed by one at any distance), and
\* of every kind but the role-policy and table deletions there is at most
\* one.
C18_TeardownCallsInFixedOrder ==
  LET order == <<{"delete_agent_runtime"}, {"delete_role_policy", "detach_role_policy"},
                 {"delete_role"}, {"delete_user_pool_domain"}, {"delete_user_pool"},
                 {"delete_table"}, {"delete_objects"}, {"delete_bucket"},
                 {"delete_secret"}>>
      rank(op) == CHOOSE k \in 1..Len(order) : op \in order[k]
  IN  prog = "cleanup" =>
        /\ \A i \in 1..Len(calls) : \E k \in 1..Len(order) : calls[i] \in order[k]
        /\ \A i \in 1..(Len(calls) - 1) : rank(calls[i]) <= rank(calls[i + 1])
        /\ \A k \in 1..Len(order) :
              Cardinality(Issued(order[k])) <= (IF k = 2 THEN 3 ELSE IF k = 6 THEN 2 ELSE 1)

C18_FullTeardownIssuedEveryCall ==
  /\ prog = "cleanup" /\ pc = "c_report"
  /\ calls = <<"delete_agent_runtime", "delete_role_policy", "delete_role_policy",
               "delete_role_policy", "delete_role", "delete_user_pool_domain",
               "delete_user_pool", "delete_table", "delete_table", "delete_objects",
               "delete_bucket", "delete_secret">>
  /\ OurRuntimes(runtimes) = {} /\ DOMAIN roles \cap {RuntimeRoleName} = {}
  /\ DOMAIN pools = {} /\ tables = {} /\ bucket = NoBucket /\ secret = NoSecret

\* C19 (as stated): the prompt of cleanup is evaluated before the inventory
\* lookup, so while the run waits for the answer no step has run and nothing
\* has been reported about the runtime.
C19_PromptBeforeLookup ==
  (prog = "cleanup" /\ pc = "c_confirm") =>
     /\ server_details = None
     /\ ~\E r \in {"found", "not found"} : <<"lookup", r>> \in printed

\* C19 (amended): the prompt of cleanup is evaluated after the inventory
\* lookup, which only reads, and before every other step: up to the prompt
\* the run has issued no mutating call and changed no resource, and a
\* non-affirmative answer ends the run as cancelled with status 0, no call
\* issued and every resource as it was; only an affirmative answer leads to
\* the runtime step.
C19_PromptGatesEveryMutatingStep ==
  [][ /\ (prog' = "cleanup" /\ pc' = "c_confirm" /\ pc # "c_confirm")
         => /\ provider' = provider /\ calls' = <<>>
            /\ \E r \in {"found", "not found"} : printed' = {<<"lookup", r>>}
      /\ (prog = "cleanup" /\ pc = "c_confirm" /\ pc' # pc)
         => /\ calls = <<>>
            /\ IF IsAffirmative(Val(response'))
               THEN pc' = "c_runtime"
               ELSE /\ pc' = "exit" /\ report' = "Cleanup cancelled"
                    /\ exitStatus' = Some(ExitSuccess)
                    /\ provider' = provider /\ calls' = <<>> ]_vars

C19_RefusedWithRuntimeFound ==
  /\ prog = "cleanup" /\ pc = "exit" /\ report = "Cleanup cancelled"
  /\ response \notin {Some(<<"y">>), Some(<<"y", "e", "s">>)}
  /\ server_details # None /\ printed = {<<"lookup", "found">>}
  /\ OurRuntimes(runtimes) # {} /\ secret # NoSecret /\ calls = <<>>

C21_AbsentRuntimeCountsAsDeleted ==
  [][ ( /\ prog = "cleanup" /\ pc = "c_runtime" /\ pc' # pc
        /\ server_details # None
        /\ RuntimeById(runtimes, Val(server_details).agent_runtime_id) = {}
        /\ faultFree' )
      => /\ printed' # {<<"runtime", "error", 0>>}
         /\ runtime_deleted' ]_vars

\* C22: a cleanup run reports "completed successfully" only when every
\* resource of the chain is gone at its end: no runtime of the configured
\* name, no runtime role, no pool, no table, no bucket and no secret.
C22_SuccessReportMeansAllGone ==
  (prog = "cleanup" /\ pc = "exit" /\ report = "Cleanup completed successfully!") =>
     /\ OurRuntimes(runtimes) = {}
     /\ RuntimeRoleName \notin DOMAIN roles
     /\ DOMAIN pools = {}
     /\ tables = {}
     /\ bucket = NoBucket
     /\ secret = NoSecret

\* C23: the exit status of a finished deploy or cleanup run tells success,
\* cancellation by a negative answer, and failure apart: the three values
\* are pairwise distinct, a run that reported success ends with the first,
\* a run cancelled at its prompt with the second, a failed run with the
\* third.
C23_ExitStatusTellsOutcome ==
  /\ ExitSuccess # ExitCancelled /\ ExitSuccess # ExitFailure /\ ExitCancelled # ExitFailure
  /\ pc = "exit" =>
       /\ report \in {"DEPLOYMENT COMPLETED SUCCESSFULLY", "UPDATE COMPLETED SUCCESSFULLY",
                      "Cleanup completed successfully!"}
            => exitStatus = Some(ExitSuccess)
       /\ report \in {"DEPLOYMENT CANCELLED BY USER", "Cleanup cancelled"}
            => exitStatus = Some(ExitCancelled)
       /\ report \in {"DEPLOYMENT FAILED", "Traceback"}
            => exitStatus = Some(ExitFailure)

\* C24: a deploy run in update mode never prints the service client
\* identifier or the token address of the credential bundle.
C24_UpdateRunPrintsNoCredentials ==
  (prog = "deploy" /\ reuse_existing) =>
     \A line \in printed : line[1] \notin {"allowed client", "token address"}

C26_NotFoundDetailsDoNotFailLookup ==
  [][ (prog = "deploy" /\ pc = "d_detect" /\ detection' = "details_not_found")
      => printed' = DetectReport("absent") ]_vars

\* C27: add_permissions is idempotent.  On any existing role a binder call
\* whose puts the provider accepts leaves the role with its policies plus
\* the three named ones, and the same call made again on the result prints
\* the success line and leaves the policy set as the first call left it; a
\* run whose binder call succeeds on a role that already holds the three
\* policies changes no role.
C27_BinderIsIdempotent ==
  [][ ( /\ prog = "deploy" /\ pc = "d_bind" /\ pc' = "d_finish"
        /\ execution_role_name # None
        /\ Val(execution_role_name) \in DOMAIN roles )
      => LET once == add_permissions(roles, execution_role_name, 0)
             twice == add_permissions(once, execution_role_name, 0)
         IN  /\ once[Val(execution_role_name)] =
                  roles[Val(execution_role_name)] \cup PolicyNames
             /\ twice = once
             /\ BinderReport(0, execution_role_name, once) = {<<"permissions", "attached">>}
             /\ BinderCalls(0, execution_role_name, once) =
                  BinderCalls(0, execution_role_name, roles)
             /\ ( /\ printed' = {<<"permissions", "attached">>}
                  /\ PolicyNames \subseteq roles[Val(execution_role_name)] )
                  => roles' = roles
    ]_vars

\* the binder of a later run succeeded on the role an earlier run had bound
C27_SecondBindingSucceeded ==
  /\ prog = "deploy" /\ pc = "d_finish" /\ reuse_existing /\ runs >= 2
  /\ printed = {<<"permissions", "attached">>}
  /\ binds = <<Some(RuntimeRoleName)>>
  /\ RuntimeRoleName \in DOMAIN roles /\ roles[RuntimeRoleName] = PolicyNames

\* C28: the descriptor a deploy run has built carries the role choice of its
\* mode: in update mode it names the role reference detection returned and
\* does not ask for a role to be created, in new mode it asks for one to be
\* created and names none; of "names a role" and "asks for a role" exactly
\* one holds.
C28_DescriptorCarriesRoleChoice ==
  (prog = "deploy" /\ config_params # None) =>
     LET params == Val(config_params)
     IN  /\ IF reuse_existing
            THEN /\ existing_config # None
                 /\ params.execution_role = Some(Val(existing_config).execution_role_arn)
                 /\ ~params.auto_create_execution_role
            ELSE /\ params.execution_role = None
                 /\ params.auto_create_execution_role
         /\ (params.execution_role # None) # params.auto_create_execution_role

\* an update run about to launch with the role of the runtime it found
C28_UpdateRunAtLaunchNamesRole ==
  /\ prog = "deploy" /\ pc = "d_launch" /\ reuse_existing
  /\ config_params # None
  /\ Val(config_params).execution_role = Some(RoleArn(RuntimeRoleName))

\* C29: the authorizer configuration an update run submits is the one the
\* runtime had before the run: the same list of allowed clients and the
\* same discovery address.
C29_UpdateSubmitsRuntimeAuth ==
  (prog = "deploy" /\ pc = "d_launch" /\ reuse_existing) =>
     \A i \in OurRuntimes(runtimes) :
        runtimes[i].id = Val(existing_config).agent_runtime_id
          => /\ Val(config_params).allowedClients = runtimes[i].auth.allowedClients
             /\ Val(config_params).discoveryUrl = runtimes[i].auth.discoveryUrl

C31_PoliciesScopedByConfiguredNames ==
  \A r \in DOMAIN roles : \A p \in roles[r] \cap PolicyNames :
     LET doc == PolicyDocument(p)
     IN  CASE p = "NovaInsuranceDynamoDBAccess" ->
                /\ doc.Action \subseteq {"dynamodb:GetItem", "dynamodb:Query",
                                         "dynamodb:Scan", "dynamodb:DescribeTable"}
                /\ doc.Resource \subseteq {TableArn(t) : t \in TableNames}
           [] p = "NovaInsuranceS3Access" ->
                /\ doc.Action \subseteq {"s3:GetObject", "s3:ListBucket"}
                /\ doc.Resource \subseteq {<<"arn:aws:s3:::", ConfiguredBucket, "*">>,
                                           <<"arn:aws:s3:::", ConfiguredBucket>>}
           [] OTHER ->
                /\ doc.Action \subseteq {"bedrock:InvokeModel", "bedrock:Converse"}
                /\ doc.Resource = {<<"arn:aws:bedrock:*::foundation-model", ConfiguredModel>>}

\* C32: an invocation of cleanup_iam_role for a found runtime issues its
\* calls in the order inline-policy deletes, managed-policy detaches, role
\* delete; the role delete is issued exactly once, last, also when a strip
\* or a detach failed; a role that is already absent is reported as already
\* deleted with no role changed; and the run goes on to the next step
\* whatever happened.
C32_RoleCleanupOrderAndIsolation ==
  [][ (prog = "cleanup" /\ pc = "c_role" /\ pc' # pc /\ runtime_deleted)
      => LET new == SubSeq(calls', Len(calls) + 1, Len(calls'))
             rank(op) == CASE op = "delete_role_policy" -> 1
                           [] op = "detach_role_policy" -> 2
                           [] op = "delete_role" -> 3
                           [] OTHER -> 0
             role == Val(server_details).execution_role_name
         IN  /\ server_details # None
             /\ Len(new) >= 1 /\ new[Len(new)] = "delete_role"
             /\ \A i \in 1..Len(new) : rank(new[i]) > 0
             /\ \A i \in 1..(Len(new) - 1) :
                   rank(new[i]) <= rank(new[i + 1]) /\ new[i] # "delete_role"
             /\ role \notin DOMAIN roles
                  => (printed' = {<<"role", "already deleted">>} /\ roles' = roles)
             /\ pc' = "c_cognito" /\ exitStatus' = exitStatus
    ]_vars

\* a role cleanup in which a strip and a detach were issued and something
\* was left on the role, and the role delete was issued all the same
C32_DeleteIssuedAfterFailedStrip ==
  /\ prog = "cleanup" /\ pc = "c_cognito"
  /\ printed = {<<"role", "error">>}
  /\ \E i \in 1..Len(calls) : calls[i] = "delete_role_policy"
  /\ \E i \in 1..Len(calls) : calls[i] = "detach_role_policy"
  /\ calls[Len(calls)] = "delete_role"
  /\ RuntimeRoleName \in DOMAIN roles /\ roles[RuntimeRoleName] \cap PolicyNames # {}

\* C33: the bucket step empties and deletes the bucket whatever the number
\* of objects stored: a step on an existing bucket in which no call failed
\* for a reason the provider state does not explain leaves no bucket and
\* reports it deleted.
C33_BucketStepEmptiesAnyBucket ==
  [][ ( /\ prog = "cleanup" /\ pc = "c_bucket" /\ pc' # pc
        /\ bucket # NoBucket /\ faultFree /\ faultFree' )
      => (bucket' = NoBucket /\ printed' = {<<"bucket", "deleted">>}) ]_vars

\* C34: check_and_create_resources creates a table or the bucket only when
\* its existence check answered not-found, on a resource that does not
\* exist; a check that fails otherwise ends the run with an error and
\* creates nothing; a check on an existing resource issues no call and
\* changes nothing; and once the three checks have passed both tables and
\* the bucket exist, so that a following invocation creates nothing.
C34_DetectBeforeCreate ==
  [][ (prog = "load" /\ pc \in {"l_applicants", "l_claims", "l_bucket"})
      => LET present == IF pc = "l_bucket" THEN bucket # NoBucket
                        ELSE LoadTableAt(pc) \in tables
         IN  /\ calls' # calls
                  => /\ ~present
                     /\ calls' = Append(calls, IF pc = "l_bucket" THEN "create_bucket"
                                               ELSE "create_table")
             /\ (tables' # tables \/ bucket' # bucket) => calls' # calls
             /\ present => (calls' = calls /\ tables' = tables /\ bucket' = bucket)
             /\ pc' = "l_data" => (tables' = TableNames /\ bucket' # NoBucket)
             /\ (pc' = "exit" /\ calls' = calls)
                  => (exitStatus' = Some(ExitFailure) /\ tables' = tables /\ bucket' = bucket)
    ]_vars

\* an invocation that found nothing and created both tables and the bucket
C34_RunCreatedAllThree ==
  /\ prog = "load" /\ pc = "l_data"
  /\ calls = <<"create_table", "create_table", "create_bucket">>
  /\ tables = TableNames /\ bucket = Some(0)

\* C35: the lookup of deploy and the lookup of cleanup agree.  On the
\* listing of every state in which a lookup is the next step of a run or of
\* a run about to start, in the order listed and in
\* the reverse order, and for every outcome of the list calls (none raises,
\* or the call of one page does) and of the details call on each runtime of
\* the configured name (answered, not-found, another error), both return
\* nothing or both return the same runtime id, address and role name.
C35_LookupsAgree ==
  pc \in {"idle", "exit", "d_detect"} =>
  \A rts \in {runtimes, [i \in 1..Len(runtimes) |-> runtimes[Len(runtimes) + 1 - i]]} :
    \A listFail \in 0..NumPages(rts), outcomes \in [OurRuntimes(rts) -> DetailOutcomes] :
       LET d == check_existing_mcp_server(rts, McpServerName, listFail, outcomes)
           c == get_mcp_server_details(rts, McpServerName, 1, listFail, outcomes)
       IN  /\ (d = None) = (c = None)
           /\ d # None =>
                /\ Val(d).agent_runtime_id = Val(c).agent_runtime_id
                /\ Val(d).agent_arn = Val(c).agent_arn
                /\ Val(d).execution_role_name = Val(c).execution_role_name

\* a cleanup run whose lookup found the runtime the update run before it
\* had found
C35_BothLookupsFoundTheRuntime ==
  /\ prog = "cleanup" /\ pc = "c_confirm"
  /\ server_details # None /\ existing_config # None
  /\ Val(existing_config).agent_runtime_id = Val(server_details).agent_runtime_id
  /\ Val(existing_config).execution_role_name = Val(server_details).execution_role_name

\* C36: a cleanup run never orphans an identity pool: whenever its last step
\* removes the secret, the pool named in the removed bundle no longer exists
C36_SecretGoesOnlyAfterItsPool ==
  [][(prog = "cleanup" /\ pc = "c_secret" /\ secret # NoSecret /\ secret' = NoSecret)
       => Val(secret).pool_id \notin DOMAIN pools']_vars

\* C37: deploy followed by cleanup is a round trip: a cleanup that follows a
\* new-mode deploy which reached Done on the loaded account, in which every
\* provider call succeeded and the runtime's deletion was confirmed (which
\* only a run confirmed at its prompt gets to), ends with no runtime of the configured name, no execution
\* role, the bundle's pool (and with it its domain) gone, no table, no
\* bucket and no secret, and a deploy started next detects Absent
C37_DeployCleanupRoundTrip ==
  (prog = "cleanup" /\ pc = "exit" /\ followsDone /\ faultFree /\ runtime_deleted)
  => /\ OurRuntimes(runtimes) = {}
     /\ server_details # None
     /\ Val(server_details).execution_role_name \notin DOMAIN roles
     /\ RuntimeRoleName \notin DOMAIN roles
     /\ secretAtStart # NoSecret
     /\ Val(secretAtStart).pool_id \notin DOMAIN pools
     /\ tables = {}
     /\ bucket = NoBucket
     /\ secret = NoSecret
     /\ check_existing_mcp_server(runtimes, McpServerName, 0,
                                  [i \in OurRuntimes(runtimes) |-> "ok"]) = None

C37_RoundTripCompleted ==
  /\ prog = "cleanup" /\ pc = "exit" /\ followsDone
  /\ faultFree /\ runtime_deleted
  /\ SelectSeq(calls, LAMBDA c : c \in {"delete_role", "delete_user_pool", "delete_table",
                                        "delete_bucket", "delete_secret"})
       = <<"delete_role", "delete_user_pool", "delete_table", "delete_table",
           "delete_bucket", "delete_secret">>

\* C38: whenever a deploy run has reached Done, the stored credential bundle
\* exists and agrees with the runtime: the runtime of the configured name
\* exists, its only allowed client is the bundle's service client, its
\* discovery address is the one of the bundle's pool, and that pool exists
C38_DoneHasAgreeingBundle ==
  DeployDone =>
    /\ secret # NoSecret
    /\ OurRuntimes(runtimes) # {}
    /\ \A i \in OurRuntimes(runtimes) :
         /\ runtimes[i].auth.allowedClients = <<Val(secret).service_client_id>>
         /\ runtimes[i].auth.discoveryUrl = DiscoveryUrl(Val(secret).pool_id)
    /\ Val(secret).pool_id \in DOMAIN pools

\* C39: the data-access helpers validate identifiers before any storage
\* access: every item or object read a tool call issues is for an applicant
\* id that is exactly 'APP-' and four digits, or a claim id that is exactly
\* 'CLM-' and four digits
C39_ReadsOnlyForExactIds ==
  \A i \in 1..Len(reads) :
     /\ (reads[i][1] = "get_item" /\ reads[i][2] = ApplicantsTable)
          => IsExactId(ApplicantPrefix, reads[i][3])
     /\ reads[i][1] = "get_object" => IsExactId(ApplicantPrefix, reads[i][3])
     /\ (reads[i][1] = "get_item" /\ reads[i][2] = ClaimsTable)
          => IsExactId(ClaimPrefix, reads[i][3])

\* C40: a tool returns status 'success' only when its reasoning request
\* produced a response; when that request failed (no client, validation
\* error, throttling, any other error) the tool returns status 'error'
C40_SuccessOnlyWithResponse ==
  reply # None =>
    /\ Val(reply).status = "success" => reasoning = "ok"
    /\ reasoning \in {"unavailable", "validation", "throttling", "other"}
         => Val(reply).status = "error"

====
